---- MODULE Spec2Model ----
(***************************************************************************)
(* A model of gingrwrapp's Client (src/gingrwrapp/client.py): the session  *)
(* lifecycle (cookie reuse, login, re-login on expiry), the retry loop of  *)
(* get/post, the content-type dispatch, the cookie file and the TTL cache  *)
(* of get_reservation_types.                                               *)
(*                                                                         *)
(* Strings are sequences of tokens, so that equality, containment, split   *)
(* and strip are computed on them as the code computes them on text.       *)
(***************************************************************************)
EXTENDS Integers, Sequences, FiniteSets, TLC

\* ------------------------------------------------------------- constants

MAX_RETRIES == 3

TTL == 3600

\* Bounds of the model (not program constants).
Quantum == 1200
MaxTicks == 4
MaxSessions == 4

Subdomain == "acme"
Usernames == {"ann", "bob"}

DefaultTimeout == <<"3.05", "27.0">>
Timeouts == {DefaultTimeout, <<"9.0">>}

GingrClientError == "GingrClientError"
RequestException == "RequestException"
KeyError == "KeyError"

NoExc == "no exception"

\* Values that are no string: Python's None and an absent header. No text
\* token equals either sentinel.
NoHeader == <<"<no header>">>
None == <<"<None>">>

\* ------------------------------------------------------ string helpers

RECURSIVE SeqFilter(_, _)
\* s without the tokens in drop: str.replace(tok, "")
SeqFilter(s, drop) ==
    IF s = <<>> THEN <<>>
    ELSE IF Head(s) \in drop THEN SeqFilter(Tail(s), drop)
         ELSE <<Head(s)>> \o SeqFilter(Tail(s), drop)

\* tok in s
Contains(s, tok) == \E i \in 1..Len(s) : s[i] = tok

\* the position after the last occurrence of tok in s (0 when absent)
LastIndex(s, tok) ==
    IF Contains(s, tok)
    THEN CHOOSE i \in 1..Len(s) : s[i] = tok /\ \A j \in (i+1)..Len(s) : s[j] # tok
    ELSE 0

\* s.split(tok)[-1]
AfterLast(s, tok) == SubSeq(s, LastIndex(s, tok) + 1, Len(s))

RECURSIVE StripLeft(_, _)
StripLeft(s, chars) ==
    IF s # <<>> /\ Head(s) \in chars THEN StripLeft(Tail(s), chars) ELSE s

RECURSIVE StripRight(_, _)
StripRight(s, chars) ==
    IF s # <<>> /\ s[Len(s)] \in chars
    THEN StripRight(SubSeq(s, 1, Len(s) - 1), chars) ELSE s

\* s.strip(chars)
Strip(s, chars) == StripRight(StripLeft(s, chars), chars)

Whitespace == {" ", "\n"}

\* the decimal digits, as text
Digits == <<"0", "1", "2", "3", "4", "5", "6", "7", "8", "9">>

DigitValue(tok) == (CHOOSE i \in 1..10 : Digits[i] = tok) - 1

RECURSIVE DecimalValue(_)
DecimalValue(s) ==
    IF s = <<>> THEN 0
    ELSE 10 * DecimalValue(SubSeq(s, 1, Len(s) - 1)) + DigitValue(s[Len(s)])

\* int(s) of a text: its value when it is a run of digits, ValueError otherwise
IntOf(s) ==
    IF s # <<>> /\ \A i \in 1..Len(s) : \E j \in 1..10 : Digits[j] = s[i]
    THEN [exc |-> NoExc, value |-> DecimalValue(s)]
    ELSE [exc |-> "ValueError", value |-> 0]

\* ---------------------------------------------------------- environment

\* a variable that os.environ does not hold
Unset == <<"<unset>">>

\* os.environ.get(name, default) / os.getenv(name, default)
EnvGet(value, default) == IF value = Unset THEN default ELSE value

Password == "password"

Environ(subdomain, user, password, retries) ==
    [GINGR_SUBDOMAIN |-> subdomain, GINGR_USERNAME |-> user,
     GINGR_PASSWORD |-> password, MAX_RETRIES |-> retries]

\* the environment of the test suite: the three login details, no MAX_RETRIES
DefaultEnviron == Environ(<<Subdomain>>, <<"ann">>, <<Password>>, Unset)

\* ---------------------------------------------------------------- urls

BaseUrl == <<"https://", Subdomain, ".gingrapp.com">>
AuthUrl == BaseUrl \o <<"/auth/login">>
DashUrl == BaseUrl \o <<"/dashboard">>
ResourceUrl == BaseUrl \o <<"/resource">>
ReservationTypesUrl == BaseUrl \o <<"/api/v1/reservation_types_by_booking_category">>
ReservationsUrl == BaseUrl \o <<"/reports/reservations_by_days">>
BulkUploadUrl == BaseUrl \o <<"/report_cards/bulk_upload">>
DeletePath == "/report_cards/delete_file/id/"

\* f"{subdomain}-{username}.cookiefile" in the temp directory
CookieFile(u) == <<Subdomain, "-", u, ".cookiefile">>
CookieFiles == {CookieFile(u) : u \in Usernames}

\* ----------------------------------------------------------- responses

\* A response body. kind says what the bytes are; the other fields hold the
\* content for that kind (lines of an HTML page and the first table body in
\* it, the fields of a JSON object, the rows of a CSV text) and are empty
\* otherwise.
Body(kind, lines, table, error, success, hasTypes, types, rows) ==
    [kind |-> kind, lines |-> lines, table |-> table, error |-> error,
     success |-> success, hasTypes |-> hasTypes, types |-> types, rows |-> rows]

\* a page without a <tbody>
NoTable == [tbody |-> FALSE, trs |-> <<>>]

Html(lines) == Body("html", lines, NoTable, "absent", "absent", FALSE, <<>>, <<>>)
Json(error, success, hasTypes, types) ==
    Body("json", <<>>, NoTable, error, success, hasTypes, types, <<>>)
Csv(rows) == Body("csv", <<>>, NoTable, "absent", "absent", FALSE, <<>>, rows)
Bytes == Body("bytes", <<>>, NoTable, "absent", "absent", FALSE, <<>>, <<>>)

\* of: what the server answered with (the requested resource, a redirect,
\* the login page, the dashboard); it is the server's, the client never
\* reads it.
Response(status, location, ctype, body, of) ==
    [status_code |-> status, location |-> location, content_type |-> ctype,
     body |-> body, of |-> of]

\* no response: the request was not sent, or raised
NoResponse == Response(0, NoHeader, NoHeader, Bytes, "none")

\* a row of the reservations report, as csv.DictReader gives it
CsvRow(id) == [id |-> id]

ApiKeyLine(k) == <<"window.apiKey", " = ", "'">> \o k \o <<"'", ";", "\n">>
OtherLine == <<"<html>", "\n">>
ApiKeys == {<<"k1">>, <<"k2">>}

CtHtml == <<"text/html", "; charset=UTF-8">>
CtJson == <<"application/json", "; charset=utf-8">>
CtCsv == <<"application/csv">>
CtQuotedCsv == <<"\"text/csv\"">>
CtPlainCsv == <<"text/csv">>
CtJsonAndHtml == <<"text/html", ", ", "application/json">>
CtImage == <<"image/jpeg">>

Dashboard(k) == Response(200, NoHeader, CtHtml, Html(<<OtherLine, ApiKeyLine(k)>>), "dashboard")
DashboardNoKey == Response(200, NoHeader, CtHtml, Html(<<OtherLine>>), "dashboard")
RedirectToLogin == Response(302, AuthUrl, CtHtml, Html(<<>>), "redirect")
RedirectElsewhere == Response(302, DashUrl, CtHtml, Html(<<>>), "redirect")
RedirectNoLocation == Response(302, NoHeader, CtHtml, Html(<<>>), "redirect")
MovedToLogin == Response(301, AuthUrl, CtHtml, Html(<<>>), "redirect")
LoginPage == Response(200, NoHeader, CtHtml, Html(<<OtherLine>>), "login page")
NoContent == Response(204, NoHeader, NoHeader, Bytes, "resource")
NotFound == Response(404, NoHeader, CtHtml, Html(<<OtherLine>>), "error page")

TypeLists == {<<>>, <<1, 2>>}

JsonAnswers ==
    {Response(200, NoHeader, CtJson, Json("absent", "absent", TRUE, t), "resource") : t \in TypeLists}
    \cup {Response(200, NoHeader, CtJson, Json("absent", "True", FALSE, <<>>), "resource"),
          Response(200, NoHeader, CtJson, Json("'denied'", "absent", FALSE, <<>>), "resource"),
          Response(200, NoHeader, CtJson, Json("absent", "False", FALSE, <<>>), "resource"),
          Response(200, NoHeader, CtJsonAndHtml, Json("absent", "absent", FALSE, <<>>), "resource"),
          Response(500, NoHeader, CtJson, Html(<<OtherLine>>), "resource")}

OtherAnswers ==
    {Response(200, NoHeader, CtHtml, Html(<<OtherLine>>), "resource"),
     Response(200, NoHeader, CtCsv, Csv(<<CsvRow(<<"7">>)>>), "resource"),
     Response(200, NoHeader, CtQuotedCsv, Csv(<<CsvRow(<<"7">>)>>), "resource"),
     Response(200, NoHeader, CtPlainCsv, Csv(<<CsvRow(<<"7">>)>>), "resource"),
     Response(200, NoHeader, CtImage, Bytes, "resource"),
     NoContent, NotFound}

Redirects == {RedirectToLogin, RedirectElsewhere, RedirectNoLocation, MovedToLogin}

\* What the server may answer a dashboard request with.
DashAnswers == {Dashboard(k) : k \in ApiKeys} \cup {DashboardNoKey} \cup Redirects

\* What the session may hand back to a get or post of the client: the code
\* takes whatever response it is given (the login page stands for a
\* redirect that the session followed).
AllAnswers == JsonAnswers \cup OtherAnswers \cup Redirects \cup {LoginPage}

\* ------------------------------------------------------------- cookies

CsrfName == "gingr_csrf_cookie_name"
SessName == "gingr_session"
HostDomain == <<Subdomain, ".gingrapp.com">>
ParentDomain == <<".gingrapp.com">>
NoDomain == <<>>

Cookie(domain, name, value) == [domain |-> domain, name |-> name, value |-> value]

\* A cookie jar is the sequence of its cookies in iteration order: grouped
\* by domain, domains and names in insertion order.
JarIndex(jar, domain, name) ==
    IF \E i \in 1..Len(jar) : jar[i].domain = domain /\ jar[i].name = name
    THEN CHOOSE i \in 1..Len(jar) : jar[i].domain = domain /\ jar[i].name = name
    ELSE 0

LastOfDomain(jar, domain) ==
    IF \E i \in 1..Len(jar) : jar[i].domain = domain
    THEN CHOOSE i \in 1..Len(jar) :
            jar[i].domain = domain /\ \A j \in (i+1)..Len(jar) : jar[j].domain # domain
    ELSE Len(jar)

\* CookieJar.set_cookie: a cookie of the same domain and name is replaced
SetCookie(jar, c) ==
    LET i == JarIndex(jar, c.domain, c.name)
        k == LastOfDomain(jar, c.domain)
    IN  IF i > 0 THEN [jar EXCEPT ![i] = c]
        ELSE SubSeq(jar, 1, k) \o <<c>> \o SubSeq(jar, k + 1, Len(jar))

RECURSIVE SetCookies(_, _)
\* the Set-Cookie headers of one response, applied in order
SetCookies(jar, cs) ==
    IF cs = <<>> THEN jar ELSE SetCookies(SetCookie(jar, Head(cs)), Tail(cs))

\* session.cookies[name] = value: a cookie of no domain
JarSetItem(jar, name, value) == SetCookie(jar, Cookie(NoDomain, name, value))

\* RequestsCookieJar.get(name, default): the value of the one cookie of
\* that name, default when there is none, an error when there are several
JarGet(jar, name, default) ==
    LET hits == {i \in 1..Len(jar) : jar[i].name = name}
    IN  IF hits = {} THEN [exc |-> NoExc, value |-> default]
        ELSE IF Cardinality(hits) > 1 THEN [exc |-> "CookieConflictError", value |-> default]
        ELSE [exc |-> NoExc, value |-> jar[CHOOSE i \in hits : TRUE].value]

\* the name/value pairs of a jar
Pairs(jar) == {<<jar[i].name, jar[i].value>> : i \in 1..Len(jar)}

NoFile == [exists |-> FALSE, pickled |-> <<>>]

\* pickle.dump(cookies, f)
save_cookies(cookies) == [exists |-> TRUE, pickled |-> cookies]

\* pickle.load(f)
load_cookies(file) == file.pickled

\* the loop of _establish_session that copies the loaded cookies by name
RECURSIVE CopyByName(_, _)
CopyByName(jar, cookies) ==
    IF cookies = <<>> THEN jar
    ELSE CopyByName(JarSetItem(jar, Head(cookies).name, Head(cookies).value), Tail(cookies))

\* The Set-Cookie headers the server may answer the requests of a login with.
AuthCookieChoices ==
    {<<>>,
     <<Cookie(HostDomain, CsrfName, <<"t1">>)>>,
     <<Cookie(HostDomain, CsrfName, <<>>)>>,
     <<Cookie(HostDomain, CsrfName, <<"t1">>), Cookie(ParentDomain, CsrfName, <<"t2">>)>>}

PostCookieChoices ==
    {<<>>,
     <<Cookie(HostDomain, SessName, <<"s1">>)>>,
     <<Cookie(HostDomain, SessName, <<"s1">>), Cookie(ParentDomain, SessName, <<"s2">>)>>}

\* ------------------------------------------------------------ sessions

EnhancedSessionDefaultTimeout(sid, t) ==
    [sid |-> sid, timeout |-> DefaultTimeout, cookies |-> <<>>]

\* EnhancedSession.__init__ under _get_session
EnhancedSession(sid, t) == [sid |-> sid, timeout |-> t, cookies |-> <<>>]

NoSession == [sid |-> 0, timeout |-> DefaultTimeout, cookies |-> <<>>]

NoKw == <<"<no keyword>">>

\* EnhancedSession.request: the request as sent, with its timeout
SessionRequest(session, method, url, kwTimeout, follow, data) ==
    [method |-> method, url |-> url, kw |-> kwTimeout,
     timeout |-> IF kwTimeout = NoKw THEN session.timeout ELSE kwTimeout,
     allow_redirects |-> follow, data |-> data, sid |-> session.sid]

\* An entry of the request log: the request, what sent it (the probe of
\* construction, a login, an attempt of get/post, a direct use of the
\* session) and whether the transport raised instead of answering.
Logged(req, role, raised) == [req |-> req, role |-> role, raised |-> raised]

\* ------------------------------------------------------ Client helpers

HeaderGet(header, default) == IF header = NoHeader THEN default ELSE header

SessionExpiredAnyStatus(response) == HeaderGet(response.location, <<>>) = AuthUrl

\* Client._session_expired
SessionExpired(response) ==
    IF response.status_code = 302
    THEN HeaderGet(response.location, <<>>) = AuthUrl
    ELSE FALSE

\* re.search("window.apiKey = ", line)
HasApiKey(line) ==
    \E i \in 1..(Len(line) - 1) : line[i] = "window.apiKey" /\ line[i + 1] = " = "

ExtractWindowApikeyOrNone(lines) ==
    LET hits == {i \in 1..Len(lines) : HasApiKey(lines[i])}
    IN  [exc |-> NoExc, msg |-> "",
         value |-> IF hits = {} THEN None
                   ELSE Strip(Strip(SeqFilter(AfterLast(lines[CHOOSE i \in hits : TRUE], " = "),
                                              {"'"}), Whitespace), {";"})]

\* Client._extract_window_apikey: the first matching line decides
ExtractWindowApikey(lines) ==
    LET hits == {i \in 1..Len(lines) : HasApiKey(lines[i])}
    IN  IF hits = {}
        THEN [exc |-> GingrClientError, msg |-> "Could not get apikey", value |-> None]
        ELSE LET line == lines[CHOOSE i \in hits : \A j \in hits : i <= j]
             IN  [exc |-> NoExc, msg |-> "",
                  value |-> Strip(Strip(SeqFilter(AfterLast(line, " = "), {"'"}),
                                        Whitespace), {";"})]

\* Python truthiness of a JSON field's value
Truthy(v) == v \notin {"False", "None", "''", "0"}

\* dict.get(key, default) on a field that may be absent
FieldGetNone(v, default) == IF v = "absent" THEN "None" ELSE v

FieldGet(v, default) == IF v = "absent" THEN default ELSE v

GetFromContentTypeRaisingForStatus(resp) ==
    LET ct == resp.content_type
        out(exc, msg, branch) ==
            [exc |-> exc, msg |-> msg, branch |-> branch, body |-> resp.body]
    IN  IF resp.status_code >= 400 THEN out(RequestException, "HTTPError", "none")
        ELSE IF ct = NoHeader THEN out(KeyError, "content-type", "none")
        ELSE IF ct = <<"application/csv">> \/ ct = <<"\"text/csv\"">>
             THEN out(NoExc, "", "csv")
        ELSE IF Contains(ct, "application/json")
             THEN IF resp.body.kind # "json"
                  THEN out(RequestException, "JSONDecodeError", "json")
                  ELSE IF Truthy(FieldGet(resp.body.error, "False"))
                          \/ ~Truthy(FieldGet(resp.body.success, "True"))
                       THEN out(GingrClientError, "Error in json response", "json")
                       ELSE out(NoExc, "", "json")
        ELSE IF Contains(ct, "text/html") THEN out(NoExc, "", "html")
        ELSE out(NoExc, "", "raw")

\* Client._get_from_content_type
GetFromContentType(resp) ==
    LET ct == resp.content_type
        out(exc, msg, branch) ==
            [exc |-> exc, msg |-> msg, branch |-> branch, body |-> resp.body]
    IN  IF ct = NoHeader THEN out(KeyError, "content-type", "none")
        ELSE IF ct = <<"application/csv">> \/ ct = <<"\"text/csv\"">>
             THEN out(NoExc, "", "csv")
        ELSE IF Contains(ct, "application/json")
             THEN IF resp.body.kind # "json"
                  THEN out(RequestException, "JSONDecodeError", "json")
                  ELSE IF Truthy(FieldGet(resp.body.error, "False"))
                          \/ ~Truthy(FieldGet(resp.body.success, "True"))
                       THEN out(GingrClientError, "Error in json response", "json")
                       ELSE out(NoExc, "", "json")
        ELSE IF Contains(ct, "text/html") THEN out(NoExc, "", "html")
        ELSE out(NoExc, "", "raw")

\* --------------------------------------------------------------- login

\* What the environment does to one login: whether each of its three
\* requests raises in transport, the cookies the answers set, the answer to
\* the dashboard request, and whether the cookie file can be opened for
\* writing.
LoginEnv(authRaises, authCookies, postRaises, postCookies, dashRaises, dash, saveRaises) ==
    [authRaises |-> authRaises, authCookies |-> authCookies,
     postRaises |-> postRaises, postCookies |-> postCookies,
     dashRaises |-> dashRaises, dash |-> dash, saveRaises |-> saveRaises]

GoodCsrf == <<Cookie(HostDomain, CsrfName, <<"t1">>)>>

\* Every course a login can take, once each (what comes after the step
\* that ends the login has no effect and is fixed), the server setting one
\* of posts as the cookies of a login that gets through.
LoginEnvsOver(posts) ==
    {LoginEnv(TRUE, <<>>, FALSE, <<>>, FALSE, DashboardNoKey, FALSE)}
    \cup {LoginEnv(FALSE, c, FALSE, <<>>, FALSE, DashboardNoKey, FALSE) :
             c \in AuthCookieChoices \ {GoodCsrf}}
    \cup {LoginEnv(FALSE, GoodCsrf, TRUE, <<>>, FALSE, DashboardNoKey, FALSE)}
    \cup {LoginEnv(FALSE, GoodCsrf, FALSE, <<>>, TRUE, DashboardNoKey, FALSE)}
    \cup {LoginEnv(FALSE, GoodCsrf, FALSE, <<>>, FALSE, d, FALSE) :
             d \in {DashboardNoKey} \cup Redirects}
    \cup {LoginEnv(FALSE, GoodCsrf, FALSE, c, FALSE, Dashboard(k), save) :
             c \in posts, k \in ApiKeys, save \in BOOLEAN}

NoLogin == LoginEnv(TRUE, <<>>, FALSE, <<>>, FALSE, DashboardNoKey, FALSE)

\* the logins that can follow response resp: none unless it makes the
\* client log in
LoginsAfter(resp, posts) == IF SessionExpired(resp) THEN LoginEnvsOver(posts) ELSE {NoLogin}

\* no login was made
NoLoginRan == [ran |-> FALSE, jar |-> <<>>, dash |-> NoResponse]

LoginPostsFirst(u, t, sid, env) ==
    LET s0 == EnhancedSession(sid, t)
        r1 == SessionRequest(s0, "GET", AuthUrl, NoKw, TRUE, <<>>)
        s1 == [s0 EXCEPT !.cookies = SetCookies(s0.cookies, env.authCookies)]
        csrf == JarGet(s1.cookies, CsrfName, None)
        r2 == SessionRequest(s1, "POST", AuthUrl, NoKw, TRUE, <<u, Password>> \o csrf.value)
        s2 == [s1 EXCEPT !.cookies = SetCookies(s1.cookies, env.postCookies)]
        r3 == SessionRequest(s2, "GET", DashUrl, NoKw, FALSE, <<>>)
        key == ExtractWindowApikey(env.dash.body.lines)
        ok(r) == Logged(r, "login", FALSE)
        bad(r) == Logged(r, "login", TRUE)
        fail(exc, msg, sent, jar, dash) ==
            [exc |-> exc, msg |-> msg, session |-> NoSession, apikey |-> None,
             assigned |-> FALSE, saves |-> FALSE, reqs |-> sent, jar |-> jar, dash |-> dash]
    IN  IF env.authRaises
        THEN fail(RequestException, "transport", <<bad(r1)>>, <<>>, NoResponse)
        ELSE IF csrf.exc # NoExc
             THEN fail(csrf.exc, "", <<ok(r1)>>, s1.cookies, NoResponse)
        ELSE IF env.postRaises
             THEN fail(RequestException, "transport", <<ok(r1), bad(r2)>>, s1.cookies,
                       NoResponse)
        ELSE IF csrf.value = None \/ csrf.value = <<>>
             THEN fail(GingrClientError, "Unable to get csrf_token", <<ok(r1), ok(r2)>>,
                       s1.cookies, NoResponse)
        ELSE IF env.dashRaises
             THEN fail(RequestException, "transport", <<ok(r1), ok(r2), bad(r3)>>,
                       s1.cookies, NoResponse)
        ELSE IF SessionExpired(env.dash)
             THEN fail(GingrClientError, "Unable to login", <<ok(r1), ok(r2), ok(r3)>>,
                       s1.cookies, env.dash)
        ELSE IF key.exc # NoExc
             THEN fail(key.exc, key.msg, <<ok(r1), ok(r2), ok(r3)>>, s1.cookies, env.dash)
        ELSE [exc |-> IF env.saveRaises THEN "OSError" ELSE NoExc,
              msg |-> IF env.saveRaises THEN "cookie file" ELSE "",
              session |-> IF env.saveRaises THEN NoSession ELSE s2,
              apikey |-> key.value, assigned |-> TRUE, saves |-> ~env.saveRaises,
              reqs |-> <<ok(r1), ok(r2), ok(r3)>>, jar |-> s1.cookies, dash |-> env.dash]

\* Client._login for the client of user u with timeout t, its new session
\* numbered sid. The result tells whether it raised, the session it
\* returns, what self.apikey was assigned (and whether it was), whether the
\* cookie file was written, the requests it sent, the cookies it had after
\* its first request and the answer its dashboard check saw.
Login(u, t, sid, env) ==
    LET s0 == EnhancedSession(sid, t)
        r1 == SessionRequest(s0, "GET", AuthUrl, NoKw, TRUE, <<>>)
        s1 == [s0 EXCEPT !.cookies = SetCookies(s0.cookies, env.authCookies)]
        csrf == JarGet(s1.cookies, CsrfName, None)
        r2 == SessionRequest(s1, "POST", AuthUrl, NoKw, TRUE, <<u, Password>> \o csrf.value)
        s2 == [s1 EXCEPT !.cookies = SetCookies(s1.cookies, env.postCookies)]
        r3 == SessionRequest(s2, "GET", DashUrl, NoKw, FALSE, <<>>)
        key == ExtractWindowApikey(env.dash.body.lines)
        ok(r) == Logged(r, "login", FALSE)
        bad(r) == Logged(r, "login", TRUE)
        fail(exc, msg, sent, jar, dash) ==
            [exc |-> exc, msg |-> msg, session |-> NoSession, apikey |-> None,
             assigned |-> FALSE, saves |-> FALSE, reqs |-> sent, jar |-> jar, dash |-> dash]
    IN  IF env.authRaises
        THEN fail(RequestException, "transport", <<bad(r1)>>, <<>>, NoResponse)
        ELSE IF csrf.exc # NoExc
             THEN fail(csrf.exc, "", <<ok(r1)>>, s1.cookies, NoResponse)
        ELSE IF csrf.value = None \/ csrf.value = <<>>
             THEN fail(GingrClientError, "Unable to get csrf_token", <<ok(r1)>>,
                       s1.cookies, NoResponse)
        ELSE IF env.postRaises
             THEN fail(RequestException, "transport", <<ok(r1), bad(r2)>>, s1.cookies,
                       NoResponse)
        ELSE IF env.dashRaises
             THEN fail(RequestException, "transport", <<ok(r1), ok(r2), bad(r3)>>,
                       s1.cookies, NoResponse)
        ELSE IF SessionExpired(env.dash)
             THEN fail(GingrClientError, "Unable to login", <<ok(r1), ok(r2), ok(r3)>>,
                       s1.cookies, env.dash)
        ELSE IF key.exc # NoExc
             THEN fail(key.exc, key.msg, <<ok(r1), ok(r2), ok(r3)>>, s1.cookies, env.dash)
        ELSE \* self.apikey is assigned, then the cookie file is opened and written
             [exc |-> IF env.saveRaises THEN "OSError" ELSE NoExc,
              msg |-> IF env.saveRaises THEN "cookie file" ELSE "",
              session |-> IF env.saveRaises THEN NoSession ELSE s2,
              apikey |-> key.value, assigned |-> TRUE, saves |-> ~env.saveRaises,
              reqs |-> <<ok(r1), ok(r2), ok(r3)>>, jar |-> s1.cookies, dash |-> env.dash]

\* ---------------------------------------------------------------- dates

Date(y, m, d) == [y |-> y, m |-> m, d |-> d]

\* no date given (the argument is None)
NoDate == Date(0, 0, 0)

IsLeap(y) == (y % 4 = 0 /\ y % 100 # 0) \/ y % 400 = 0

DaysInMonth(y, m) ==
    IF m = 2 THEN (IF IsLeap(y) THEN 29 ELSE 28)
    ELSE IF m \in {4, 6, 9, 11} THEN 30 ELSE 31

NextDay(dt) ==
    IF dt.d < DaysInMonth(dt.y, dt.m) THEN Date(dt.y, dt.m, dt.d + 1)
    ELSE IF dt.m < 12 THEN Date(dt.y, dt.m + 1, 1)
    ELSE Date(dt.y + 1, 1, 1)

PrevDay(dt) ==
    IF dt.d > 1 THEN Date(dt.y, dt.m, dt.d - 1)
    ELSE IF dt.m > 1 THEN Date(dt.y, dt.m - 1, DaysInMonth(dt.y, dt.m - 1))
    ELSE Date(dt.y - 1, 12, 31)

RECURSIVE AddDays(_, _)
\* date + timedelta(days=n)
AddDays(dt, n) ==
    IF n = 0 THEN dt
    ELSE IF n > 0 THEN AddDays(NextDay(dt), n - 1)
    ELSE AddDays(PrevDay(dt), n + 1)

\* the decimal digits of n, at least width of them
RECURSIVE Pad(_, _)
Pad(n, width) ==
    IF n < 10 /\ width <= 1 THEN <<Digits[n + 1]>>
    ELSE Pad(n \div 10, width - 1) \o <<Digits[(n % 10) + 1]>>

\* date.strftime("%m/%d/%Y")
Strftime(dt) == Pad(dt.m, 2) \o <<"/">> \o Pad(dt.d, 2) \o <<"/">> \o Pad(dt.y, 4)

\* ------------------------------------------------------------ datetimes

DateTime(y, m, d, H, M, S) == [y |-> y, m |-> m, d |-> d, H |-> H, M |-> M, S |-> S]

\* None where a datetime is expected
NoDateTime == DateTime(0, 0, 0, 0, 0, 0)

IsDigits(text) == \A i \in 1..Len(text) : \E j \in 1..10 : Digits[j] = text[i]

\* datetime(y, m, d, H, M, S): ValueError for a field out of range
MakeDateTime(y, m, d, H, M, S) ==
    IF /\ y \in 1..9999 /\ m \in 1..12 /\ d >= 1
       /\ H \in 0..23 /\ M \in 0..59 /\ S \in 0..59
       /\ d <= DaysInMonth(y, m)
    THEN [exc |-> NoExc, value |-> DateTime(y, m, d, H, M, S)]
    ELSE [exc |-> "ValueError", value |-> NoDateTime]

\* datetime.fromisoformat(x), for the formats YYYY-MM-DD, the same followed
\* by "T" or " " and HH:MM:SS, and YYYYMMDD where the interpreter reads the
\* basic format (Python 3.11 and later); anything else is an error
FromIsoformat(x, basic) ==
    LET n(a, b) == DecimalValue(SubSeq(x, a, b))
        dashed == /\ Len(x) \in {10, 19} /\ x[5] = "-" /\ x[8] = "-"
                  /\ IsDigits(SubSeq(x, 1, 4)) /\ IsDigits(SubSeq(x, 6, 7))
                  /\ IsDigits(SubSeq(x, 9, 10))
        timed == /\ Len(x) = 19 /\ x[11] \in {"T", " "} /\ x[14] = ":" /\ x[17] = ":"
                 /\ IsDigits(SubSeq(x, 12, 13)) /\ IsDigits(SubSeq(x, 15, 16))
                 /\ IsDigits(SubSeq(x, 18, 19))
    IN  IF dashed /\ Len(x) = 10
        THEN MakeDateTime(n(1, 4), n(6, 7), n(9, 10), 0, 0, 0)
        ELSE IF dashed /\ timed
        THEN MakeDateTime(n(1, 4), n(6, 7), n(9, 10), n(12, 13), n(15, 16), n(18, 19))
        ELSE IF basic /\ Len(x) = 8 /\ IsDigits(x)
        THEN MakeDateTime(n(1, 4), n(5, 6), n(7, 8), 0, 0, 0)
        ELSE [exc |-> "ValueError", value |-> NoDateTime]

RECURSIVE DayOfEpoch(_, _, _)
\* the date n days after the first day of month m of year y, n >= 0
DayOfEpoch(y, m, n) ==
    IF n < DaysInMonth(y, m) THEN Date(y, m, n + 1)
    ELSE IF m < 12 THEN DayOfEpoch(y, m + 1, n - DaysInMonth(y, m))
    ELSE DayOfEpoch(y + 1, 1, n - DaysInMonth(y, m))

\* datetime.fromtimestamp(int(x)) in a process whose local time is tz
\* seconds east of UTC
Timestamp(x, tz) ==
    LET i == IntOf(x)
        local == i.value + tz
        day == IF local < 0 THEN AddDays(Date(1970, 1, 1), local \div 86400)
               ELSE DayOfEpoch(1970, 1, local \div 86400)
        second == local % 86400
    IN  IF i.exc # NoExc THEN [exc |-> i.exc, value |-> NoDateTime]
        ELSE MakeDateTime(day.y, day.m, day.d,
                          second \div 3600, (second % 3600) \div 60, second % 60)

DtHelperEpochFirst(x, basic, tz) ==
    LET iso == FromIsoformat(x, basic)
        epoch == Timestamp(x, tz)
    IN  IF epoch.exc = NoExc THEN epoch.value
        ELSE IF iso.exc = NoExc THEN iso.value
        ELSE NoDateTime

\* dt_helper: the first of the two conversions that does not raise
DtHelper(x, basic, tz) ==
    LET iso == FromIsoformat(x, basic)
        epoch == Timestamp(x, tz)
    IN  IF iso.exc = NoExc THEN iso.value
        ELSE IF epoch.exc = NoExc THEN epoch.value
        ELSE NoDateTime

\* a datetime is true, None is not
DateTimeTruthy(dt) == dt # NoDateTime

\* dt_helper_raise
DtHelperRaise(x, basic, tz) ==
    LET dt == DtHelper(x, basic, tz)
    IN  IF ~DateTimeTruthy(dt)
        THEN [exc |-> "ValueError", msg |-> "Required datetime", value |-> NoDateTime]
        ELSE [exc |-> NoExc, msg |-> "", value |-> dt]

\* ---------------------------------------------------------------- icons

\* A dict is the sequence of its items in insertion order.
DictHas(d, key) == \E i \in 1..Len(d) : d[i].key = key

DictGet(d, key) == d[CHOOSE i \in 1..Len(d) : d[i].key = key].value

\* d[key] = value: a key the dict holds keeps its place
DictSet(d, key, value) ==
    IF DictHas(d, key)
    THEN [i \in 1..Len(d) |-> IF d[i].key = key THEN [key |-> key, value |-> value] ELSE d[i]]
    ELSE Append(d, [key |-> key, value |-> value])

\* Icon.from_json: an entry of icon_templates.animal_templates
IconFromJson(t) ==
    [id |-> IntOf(t.id).value, title |-> t.title, type |-> "custom"]

\* SystemAnimalIcon.from_json
SystemAnimalIconFromJson(icon, a_id) ==
    [icon_id |-> IntOf(icon.id).value, animal_id |-> a_id, title |-> icon.title,
     kind |-> "system"]

\* CustomAnimalIcon.from_json
CustomAnimalIconFromJson(icon) ==
    [icon_id |-> IntOf(icon.color_label_template_id).value,
     animal_id |-> IntOf(icon.animal_id).value, title |-> "", kind |-> "custom"]

\* SystemAnimalIcon.to_template
ToTemplate(system_icon) ==
    [id |-> system_icon.icon_id, title |-> system_icon.title, type |-> "system"]

RECURSIVE TemplatesFromJson(_, _)
\* the first loop of Icons.from_json
TemplatesFromJson(templates, entries) ==
    IF entries = <<>> THEN templates
    ELSE LET icon_t == IconFromJson(Head(entries))
         IN  TemplatesFromJson(DictSet(templates, icon_t.id, icon_t), Tail(entries))

RECURSIVE AnimalIconsFromJsonReplacing(_, _, _)
AnimalIconsFromJsonReplacing(built, a_id, entries) ==
    IF entries = <<>> THEN built
    ELSE LET icon == Head(entries)
             system_icon == SystemAnimalIconFromJson(icon, a_id)
             custom_icon == CustomAnimalIconFromJson(icon)
             list == DictGet(built.animal_icons, a_id)
         IN  IF icon.type = "system"
             THEN AnimalIconsFromJsonReplacing(
                    [templates |->
                        DictSet(built.templates, system_icon.icon_id,
                                ToTemplate(system_icon)),
                     animal_icons |->
                        DictSet(built.animal_icons, a_id, Append(list, system_icon))],
                    a_id, Tail(entries))
             ELSE AnimalIconsFromJsonReplacing(
                    [built EXCEPT !.animal_icons =
                        DictSet(built.animal_icons, a_id, Append(list, custom_icon))],
                    a_id, Tail(entries))

RECURSIVE AnimalIconsFromJson(_, _, _)
\* the inner loop of Icons.from_json, over the icons of animal a_id
AnimalIconsFromJson(built, a_id, entries) ==
    IF entries = <<>> THEN built
    ELSE LET icon == Head(entries)
             system_icon == SystemAnimalIconFromJson(icon, a_id)
             custom_icon == CustomAnimalIconFromJson(icon)
             list == DictGet(built.animal_icons, a_id)
         IN  IF icon.type = "system"
             THEN AnimalIconsFromJson(
                    [templates |->
                        IF ~DictHas(built.templates, system_icon.icon_id)
                        THEN DictSet(built.templates, system_icon.icon_id,
                                     ToTemplate(system_icon))
                        ELSE built.templates,
                     animal_icons |->
                        DictSet(built.animal_icons, a_id, Append(list, system_icon))],
                    a_id, Tail(entries))
             ELSE AnimalIconsFromJson(
                    [built EXCEPT !.animal_icons =
                        DictSet(built.animal_icons, a_id, Append(list, custom_icon))],
                    a_id, Tail(entries))

RECURSIVE AnimalsFromJson(_, _)
\* the loop of Icons.from_json over data.animals
AnimalsFromJson(built, animals) ==
    IF animals = <<>> THEN built
    ELSE LET a_id == IntOf(Head(animals).key).value
         IN  AnimalsFromJson(
                AnimalIconsFromJson(
                    [built EXCEPT !.animal_icons = DictSet(built.animal_icons, a_id, <<>>)],
                    a_id, Head(animals).value),
                Tail(animals))

\* Icons.from_json
IconsFromJson(resp) ==
    AnimalsFromJson([templates |-> TemplatesFromJson(<<>>, resp.animal_templates),
                     animal_icons |-> <<>>],
                    resp.animals)

RECURSIVE FlatIcons(_)
\* the animal icons of an Icons value, in the order its iteration meets them
FlatIcons(animal_icons) ==
    IF animal_icons = <<>> THEN <<>>
    ELSE Head(animal_icons).value \o FlatIcons(Tail(animal_icons))

RECURSIVE IconsIter(_, _)
\* Icons.__iter__, consumed to its end: the pairs it yielded and the
\* exception that ended it, if any
IconsIter(templates, flat) ==
    IF flat = <<>> THEN [yielded |-> <<>>, exc |-> NoExc]
    ELSE IF ~DictHas(templates, Head(flat).icon_id)
         THEN [yielded |-> <<>>, exc |-> KeyError]
    ELSE LET rest == IconsIter(templates, Tail(flat))
         IN  [yielded |-> <<[template |-> DictGet(templates, Head(flat).icon_id),
                             animal_icon |-> Head(flat)]>> \o rest.yielded,
              exc |-> rest.exc]

\* ------------------------------------------------------------------ csv

Doctype == "<!DOCTYPE html>"

\* the position of the first occurrence of tok in s (0 when absent)
FirstIndex(s, tok) ==
    IF Contains(s, tok)
    THEN CHOOSE i \in 1..Len(s) : s[i] = tok /\ \A j \in 1..(i - 1) : s[j] # tok
    ELSE 0

\* s.split(tok)[0]
BeforeFirst(s, tok) ==
    IF Contains(s, tok) THEN SubSeq(s, 1, FirstIndex(s, tok) - 1) ELSE s

RECURSIVE Split(_, _)
\* s.split(tok)
Split(s, tok) ==
    IF ~Contains(s, tok) THEN <<s>>
    ELSE <<BeforeFirst(s, tok)>> \o Split(SubSeq(s, FirstIndex(s, tok) + 1, Len(s)), tok)

\* the lines a text stream gives when it is iterated, without their ends:
\* the text after the last newline is a line unless it is empty
StreamLines(text) ==
    LET parts == Split(text, "\n")
    IN  IF parts[Len(parts)] = <<>> THEN SubSeq(parts, 1, Len(parts) - 1) ELSE parts

\* csv.reader on one line: its fields, none for an empty line
CsvFields(line) == IF line = <<>> THEN <<>> ELSE Split(line, ",")

RECURSIVE ZipDict(_, _, _)
\* dict(zip(fieldnames, row)), added to d
ZipDict(d, fieldnames, row) ==
    IF fieldnames = <<>> \/ row = <<>> THEN d
    ELSE ZipDict(DictSet(d, Head(fieldnames), Head(row)), Tail(fieldnames), Tail(row))

RECURSIVE RestVal(_, _)
\* d[key] = None for every key of keys
RestVal(d, keys) ==
    IF keys = <<>> THEN d ELSE RestVal(DictSet(d, Head(keys), None), Tail(keys))

\* csv.DictReader.__next__ on one row that is not empty: fields beyond the
\* header go under the key None as a list, header fields beyond the row
\* get the value None
DictReaderRow(fieldnames, row) ==
    LET lf == Len(fieldnames)
        lr == Len(row)
        d == ZipDict(<<>>, fieldnames, row)
    IN  IF lf < lr THEN DictSet(d, None, SubSeq(row, lf + 1, lr))
        ELSE IF lf > lr THEN RestVal(d, SubSeq(fieldnames, lr + 1, lf))
        ELSE d

RECURSIVE DictReaderRows(_, _)
\* the rows csv.DictReader gives for the lines after the header: empty
\* lines are skipped
DictReaderRows(fieldnames, lines) ==
    IF lines = <<>> THEN <<>>
    ELSE IF CsvFields(Head(lines)) = <<>> THEN DictReaderRows(fieldnames, Tail(lines))
    ELSE <<DictReaderRow(fieldnames, CsvFields(Head(lines)))>>
         \o DictReaderRows(fieldnames, Tail(lines))

\* csv.DictReader(stream), consumed to its end: the first line is the header
DictReader(text) ==
    LET lines == StreamLines(text)
    IN  IF lines = <<>> THEN <<>>
        ELSE DictReaderRows(CsvFields(lines[1]), Tail(lines))

\* The content of a response: a zip archive with its members in archive
\* order (name, bytes, and whether the bytes are valid UTF-8), or bytes
\* that are no archive, with the text they decode to.
Member(name, utf8, text) == [name |-> name, utf8 |-> utf8, text |-> text]
Archive(members) == [zip |-> TRUE, members |-> members, text |-> <<"PK">>]
Plain(text) == [zip |-> FALSE, members |-> <<>>, text |-> text]

\* zipfile.is_zipfile(io.BytesIO(content))
IsZipfile(content) == content.zip

UnzipFirst(content) ==
    IF ~IsZipfile(content)
    THEN [exc |-> "BadZipFile", msg |-> "File is not a zip file", value |-> <<>>]
    ELSE IF content.members = <<>>
    THEN [exc |-> GingrClientError, msg |-> "Not sure which file to read in zip.",
          value |-> <<>>]
    ELSE IF ~content.members[1].utf8
         THEN [exc |-> "UnicodeDecodeError", msg |-> "utf-8", value |-> <<>>]
         ELSE [exc |-> NoExc, msg |-> "", value |-> content.members[1].text]

\* Client.unzip: the text of the only member of the archive
Unzip(content) ==
    IF ~IsZipfile(content)
    THEN [exc |-> "BadZipFile", msg |-> "File is not a zip file", value |-> <<>>]
    ELSE IF Len(content.members) = 1
    THEN IF ~content.members[1].utf8
         THEN [exc |-> "UnicodeDecodeError", msg |-> "utf-8", value |-> <<>>]
         ELSE [exc |-> NoExc, msg |-> "", value |-> content.members[1].text]
    ELSE [exc |-> GingrClientError, msg |-> "Not sure which file to read in zip.",
          value |-> <<>>]

ExtractCsvWholeText(content) ==
    IF IsZipfile(content)
    THEN LET U == Unzip(content)
         IN  [exc |-> U.exc, msg |-> U.msg,
              rows |-> IF U.exc = NoExc THEN DictReader(U.value) ELSE <<>>]
    ELSE [exc |-> NoExc, msg |-> "", rows |-> DictReader(content.text)]

\* Client._extract_csv, its reader consumed to its end
ExtractCsv(content) ==
    IF IsZipfile(content)
    THEN LET U == Unzip(content)
         IN  [exc |-> U.exc, msg |-> U.msg,
              rows |-> IF U.exc = NoExc THEN DictReader(U.value) ELSE <<>>]
    ELSE [exc |-> NoExc, msg |-> "",
          rows |-> DictReader(BeforeFirst(content.text, Doctype))]

\* ---------------------------------------------------------------- state

VARIABLES
    files,              \* the temp directory: cookie file name -> file
    pc,                 \* "none": no client; "idle": constructed; "loop": in get/post
    username,           \* Client.username
    timeout,            \* Client.timeout
    apikey,             \* Client.apikey
    session,            \* Client._session
    reservation_types,  \* Client.reservation_types, the TTL cache
    now,                \* the clock the cache reads
    nsid,               \* sessions created by this client
    call,               \* the operation in progress
    attempts,           \* the attempts counter of get/post
    reqs,               \* the requests sent by the operation in progress (or the last one)
    last,               \* how the last operation ended
    fetched,            \* history: the last list the server gave for reservation types, and when
    args,               \* the arguments and the local variables of the accessor in progress
    environ,            \* os.environ, as the process found it
    icons,              \* an Icons value in the making (response_objects.py)
    computed            \* the last call of a function that reads no state, and its result

vars == <<files, pc, username, timeout, apikey, session, reservation_types, now,
          nsid, call, attempts, reqs, last, fetched, args, environ, icons, computed>>

\* what the operations of the client leave alone
aside == <<environ, icons, computed>>

\* what a function that reads no state leaves alone
client == <<files, pc, username, timeout, apikey, session, reservation_types, now,
            nsid, call, attempts, reqs, last, fetched, args, environ, icons>>

EmptyCache == [full |-> FALSE, value |-> <<>>, expires |-> 0]
NoCall == [name |-> "none", method |-> "none", url |-> <<>>]

NeverFetched == [at |-> -1, value |-> <<>>]

\* The arguments and locals of an accessor:
\*   date, days   the arguments of get_reservations
\*   today        Date.today() when it was called
\*   types        the ids its POST is given
\*   images       the list get_untagged_images returned to clear_bulk_upload
\*   todo         how many of them delete_image has been called for
\*   served       history: the file ids whose delete request the server served
\*   animal_id    the argument of get_animal
NoArgs ==
    [date |-> NoDate, days |-> 1, today |-> NoDate, types |-> <<>>,
     images |-> <<>>, todo |-> 0, served |-> {}, animal_id |-> 0]

\* no Icons value: nothing was built yet
NoIcons ==
    [stage |-> "none", resp |-> [animal_templates |-> <<>>, animals |-> <<>>],
     templates |-> <<>>, animal_icons |-> <<>>, yielded |-> <<>>, exc |-> NoExc]

\* no function was called yet
NotComputed == [fn |-> "none", input |-> <<>>, exc |-> NoExc, msg |-> "", value |-> <<>>]

\* How an operation ended, and what happened in it:
\*   op, user, t   the operation and, for a construction, its arguments
\*   at, prior     when it was called, and what `fetched` was then
\*   existed       for a construction: whether the cookie file existed
\*   answered      whether a response reached _session_expired (the answer to
\*   resp, expired   the probe, or to the last attempt), which, and the verdict
\*   relogin       whether the operation logged in because of an expiry
\*   dispatched    whether resp reached the content-type dispatch, and the
\*   branch          branch of it that was taken
\*   exc, msg      the exception raised, if any
\*   login         whether the operation made a login, the cookies the login
\*                   had after its first request, and the answer its
\*                   dashboard check saw
\*   ret           what get or post returned to its caller
\*   value         the list a reservation accessor returned
NoOutcome(name, at) ==
    [op |-> name, user |-> "ann", t |-> DefaultTimeout, at |-> at, prior |-> NeverFetched,
     existed |-> FALSE, answered |-> FALSE, resp |-> NoResponse, expired |-> FALSE,
     relogin |-> FALSE, dispatched |-> FALSE, branch |-> "none", done |-> FALSE,
     exc |-> NoExc, msg |-> "", login |-> NoLoginRan, ret |-> Bytes, value |-> <<>>]

\* the state before the program has made a client
Started ==
    /\ files = [f \in CookieFiles |-> NoFile]
    /\ pc = "none"
    /\ username = "ann"
    /\ timeout = DefaultTimeout
    /\ apikey = None
    /\ session = NoSession
    /\ reservation_types = EmptyCache
    /\ now = 0
    /\ nsid = 0
    /\ call = NoCall
    /\ attempts = 0
    /\ reqs = <<>>
    /\ last = NoOutcome("none", 0)
    /\ fetched = NeverFetched
    /\ args = NoArgs
    /\ icons = NoIcons
    /\ computed = NotComputed

Init == Started /\ environ = DefaultEnviron

\* --------------------------------------------------------- construction

EstablishSessionAlwaysLogin(u, t, sid, file, probeRaises, probe, env) ==
    LET L == Login(u, t, sid + 1, env)
    IN  [exc |-> L.exc, msg |-> L.msg, session |-> L.session, apikey |-> L.apikey,
         saves |-> L.saves, reqs |-> L.reqs, created |-> 1,
         probed |-> FALSE, expired |-> FALSE,
         login |-> [ran |-> TRUE, jar |-> L.jar, dash |-> L.dash]]

\* Client._establish_session for user u and timeout t, with the sessions it
\* creates numbered from sid + 1. file is the cookie file; the environment
\* decides whether the dashboard probe raises in transport, what it is
\* answered, and what happens to a login.
EstablishSession(u, t, sid, file, probeRaises, probe, env) ==
    LET s0 == EnhancedSession(sid + 1, t)
        s == [s0 EXCEPT !.cookies = CopyByName(s0.cookies, load_cookies(file))]
        r0 == SessionRequest(s, "GET", DashUrl, NoKw, FALSE, <<>>)
        key == ExtractWindowApikey(probe.body.lines)
        viaLogin(L, sent, n) ==
            [exc |-> L.exc, msg |-> L.msg, session |-> L.session, apikey |-> L.apikey,
             saves |-> L.saves, reqs |-> sent \o L.reqs, created |-> n,
             probed |-> sent # <<>>, expired |-> sent # <<>>,
             login |-> [ran |-> TRUE, jar |-> L.jar, dash |-> L.dash]]
    IN  IF file.exists
        THEN IF probeRaises
             THEN [exc |-> RequestException, msg |-> "transport", session |-> NoSession,
                   apikey |-> None, saves |-> FALSE,
                   reqs |-> <<Logged(r0, "probe", TRUE)>>, created |-> 1,
                   probed |-> FALSE, expired |-> FALSE, login |-> NoLoginRan]
             ELSE IF SessionExpired(probe)
                  THEN viaLogin(Login(u, t, sid + 2, env), <<Logged(r0, "probe", FALSE)>>, 2)
                  ELSE [exc |-> key.exc, msg |-> key.msg,
                        session |-> IF key.exc = NoExc THEN s ELSE NoSession,
                        apikey |-> key.value, saves |-> FALSE,
                        reqs |-> <<Logged(r0, "probe", FALSE)>>, created |-> 1,
                        probed |-> TRUE, expired |-> FALSE, login |-> NoLoginRan]
        ELSE viaLogin(Login(u, t, sid + 1, env), <<>>, 1)

\* Client(subdomain, u, "password", timeout=t). A construction that raises
\* leaves no client.
Construct(u, t, probeRaises, probe, env) ==
    /\ pc = "none"
    /\ \E E \in {EstablishSession(u, t, 0, files[CookieFile(u)], probeRaises, probe, env)} :
         LET made == E.exc = NoExc
         IN  /\ pc' = IF made THEN "idle" ELSE "none"
             /\ username' = IF made THEN u ELSE "ann"
             /\ timeout' = IF made THEN t ELSE DefaultTimeout
             /\ apikey' = IF made THEN E.apikey ELSE None
             /\ session' = IF made THEN E.session ELSE NoSession
             /\ nsid' = IF made THEN E.created ELSE 0
             /\ files' = IF E.saves
                         THEN [files EXCEPT ![CookieFile(u)] = save_cookies(E.session.cookies)]
                         ELSE files
             /\ reqs' = E.reqs
             /\ last' = [NoOutcome("construct", now) EXCEPT
                            !.user = u, !.t = t, !.done = TRUE,
                            !.existed = files[CookieFile(u)].exists,
                            !.answered = E.probed, !.resp = IF E.probed THEN probe ELSE NoResponse,
                            !.expired = E.expired, !.exc = E.exc, !.msg = E.msg,
                            !.login = E.login]
    /\ reservation_types' = EmptyCache
    /\ call' = NoCall
    /\ attempts' = 0
    /\ UNCHANGED <<now, fetched, args, aside>>

\* Every construction for a user among users with a timeout among
\* timeouts: with a cookie file the probe raises or is answered (and a login
\* follows an answer that redirects to the login URL); without one, a login.
Constructs(users, timeouts, posts) ==
    \E u \in users, t \in timeouts :
        IF files[CookieFile(u)].exists
        THEN \E probe \in DashAnswers :
                \/ Construct(u, t, TRUE, probe, NoLogin)
                \/ \E env \in LoginsAfter(probe, posts) : Construct(u, t, FALSE, probe, env)
        ELSE \E env \in LoginEnvsOver(posts) : Construct(u, t, FALSE, DashboardNoKey, env)

FromEnvNoPassword ==
    LET subdomain == EnvGet(environ.GINGR_SUBDOMAIN, <<>>)
        user == EnvGet(environ.GINGR_USERNAME, <<>>)
    IN  IF subdomain # <<>> /\ user # <<>>
        THEN Constructs({user[1]}, {DefaultTimeout}, {<<Cookie(HostDomain, SessName, <<"s1">>)>>})
        ELSE /\ pc = "none"
             /\ reqs' = <<>>
             /\ last' = [NoOutcome("from_env", now) EXCEPT
                            !.done = TRUE, !.exc = GingrClientError,
                            !.msg = "Login details not provided"]
             /\ UNCHANGED <<files, pc, username, timeout, apikey, session, reservation_types,
                            now, nsid, call, attempts, fetched, args, aside>>

\* Client.from_env(): the three login details are read from the
\* environment; with all of them non-empty the client is constructed, of
\* that subdomain, user and password, on the server's session cookie.
FromEnv ==
    LET subdomain == EnvGet(environ.GINGR_SUBDOMAIN, <<>>)
        user == EnvGet(environ.GINGR_USERNAME, <<>>)
        password == EnvGet(environ.GINGR_PASSWORD, <<>>)
    IN  IF subdomain # <<>> /\ user # <<>> /\ password # <<>>
        THEN Constructs({user[1]}, {DefaultTimeout}, {<<Cookie(HostDomain, SessName, <<"s1">>)>>})
        ELSE /\ pc = "none"
             /\ reqs' = <<>>
             /\ last' = [NoOutcome("from_env", now) EXCEPT
                            !.done = TRUE, !.exc = GingrClientError,
                            !.msg = "Login details not provided"]
             /\ UNCHANGED <<files, pc, username, timeout, apikey, session, reservation_types,
                            now, nsid, call, attempts, fetched, args, aside>>

\* The program drops its client (the files and the clock stay).
Discard ==
    /\ pc = "idle"
    /\ pc' = "none"
    /\ username' = "ann"
    /\ timeout' = DefaultTimeout
    /\ apikey' = None
    /\ session' = NoSession
    /\ reservation_types' = EmptyCache
    /\ nsid' = 0
    /\ call' = NoCall
    /\ attempts' = 0
    /\ reqs' = <<>>
    /\ last' = NoOutcome("none", 0)
    /\ fetched' = NeverFetched
    /\ args' = NoArgs
    /\ UNCHANGED <<files, now, aside>>

\* ------------------------------------------------------------ get/post

AnimalPath == "/animals/view/id/"
AnimalUrl(animal_id) == BaseUrl \o <<AnimalPath>> \o Pad(animal_id, 1)

\* the request an operation starts with
FirstCall(name, a) ==
    IF name = "get" THEN [name |-> name, method |-> "GET", url |-> ResourceUrl]
    ELSE IF name = "post" THEN [name |-> name, method |-> "POST", url |-> ResourceUrl]
    ELSE IF name \in {"clear_bulk_upload", "get_untagged_images"}
         THEN [name |-> name, method |-> "GET", url |-> BulkUploadUrl]
    ELSE IF name = "get_animal"
         THEN [name |-> name, method |-> "GET", url |-> AnimalUrl(a.animal_id)]
    ELSE [name |-> name, method |-> "GET", url |-> ReservationTypesUrl]

ReportCall == [name |-> "get_reservations", method |-> "POST", url |-> ReservationsUrl]

\* f"{self.base_url}/report_cards/delete_file/id/{file_id}"
DeleteUrl(file_id) == BaseUrl \o <<DeletePath>> \o Pad(file_id, 1)

\* delete_image(file_id) under clear_bulk_upload
DeleteCall(file_id) ==
    [name |-> "clear_bulk_upload", method |-> "GET", url |-> DeleteUrl(file_id)]

ReportDataNextDay(a) ==
    LET date_from == IF a.date # NoDate THEN a.date ELSE a.today
        date_to == AddDays(date_from, 1)
    IN  [date_from |-> Strftime(date_from), date_to |-> Strftime(date_to),
         type_ids |-> a.types, cancelled |-> "true", csv |-> "true"]

\* the data of the POST of get_reservations
ReportData(a) ==
    LET date_from == IF a.date # NoDate THEN a.date ELSE a.today
        date_to == AddDays(date_from, a.days)
    IN  [date_from |-> Strftime(date_from), date_to |-> Strftime(date_to),
         type_ids |-> a.types, cancelled |-> "true", csv |-> "true"]

CacheHitEver(cache, time) == cache.full

\* TTLCache lookup under cachedmethod: the entry, unless it has expired
CacheHit(cache, time) == cache.full /\ time < cache.expires

CacheStoreNoTtl(value, time) == [full |-> TRUE, value |-> value, expires |-> time]

\* TTLCache store: the entry expires ttl after it was stored
CacheStore(value, time) == [full |-> TRUE, value |-> value, expires |-> time + TTL]

\* The caller calls get, post, get_reservation_types or get_reservations.
\* get and post enter their loop with attempts = 0. get_reservation_types
\* returns the cached list when there is one; get_reservations uses the
\* cached list and goes on to its POST.
\* a holds the arguments (and today's date).
Call(name, a) ==
    /\ pc = "idle"
    /\ nsid < MaxSessions
    /\ reqs' = <<>>
    /\ attempts' = 0
    /\ IF name = "get_reservation_types" /\ CacheHit(reservation_types, now)
       THEN /\ pc' = "idle"
            /\ call' = NoCall
            /\ args' = a
            /\ last' = [NoOutcome(name, now) EXCEPT !.prior = fetched, !.done = TRUE,
                                                    !.value = reservation_types.value]
       ELSE /\ pc' = "loop"
            /\ IF name = "get_reservations" /\ CacheHit(reservation_types, now)
               THEN /\ call' = ReportCall
                    /\ args' = [a EXCEPT !.types = reservation_types.value]
               ELSE /\ call' = FirstCall(name, a)
                    /\ args' = a
            /\ last' = [NoOutcome(name, now) EXCEPT !.prior = fetched]
    /\ UNCHANGED <<files, username, timeout, apikey, session, reservation_types, now,
                   nsid, fetched, aside>>

\* a call without arguments, on the last day of January 2023
StartCall(name) == Call(name, [NoArgs EXCEPT !.today = Date(2023, 1, 31)])

\* MAX_RETRIES = int(os.getenv("MAX_RETRIES", "3")), as the module read it
MaxRetries ==
    IF environ.MAX_RETRIES = Unset THEN MAX_RETRIES ELSE IntOf(environ.MAX_RETRIES).value

RetryingOnceMore(n) == n <= MaxRetries

RetryingAtLeastOnce(n) == n = 0 \/ n < MaxRetries

\* while attempts < MAX_RETRIES
Retrying(n) == n < MaxRetries

\* the request of one attempt of the loop of get/post
Attempt(raised) ==
    Logged(SessionRequest(session, call.method, call.url, NoKw, TRUE,
                          IF call.url = ReservationsUrl THEN ReportData(args) ELSE <<>>),
           "attempt", raised)

\* One attempt of the loop raises a RequestException: it is counted.
TransportError ==
    /\ pc = "loop"
    /\ Retrying(attempts)
    /\ attempts' = attempts + 1
    /\ reqs' = Append(reqs, Attempt(TRUE))
    /\ UNCHANGED <<files, pc, username, timeout, apikey, session, reservation_types, now,
                   nsid, call, last, fetched, args, aside>>

\* The loop ends with attempts = MAX_RETRIES.
TooManyBadRequests ==
    /\ pc = "loop"
    /\ ~Retrying(attempts)
    /\ pc' = "idle"
    /\ call' = NoCall
    /\ last' = [last EXCEPT !.done = TRUE, !.exc = GingrClientError,
                            !.msg = "Too many bad requests"]
    /\ UNCHANGED <<files, username, timeout, apikey, session, reservation_types, now,
                   nsid, attempts, reqs, fetched, args, aside>>

\* get_reservation_types after its get returned d: the list of the
\* "reservation_types" field of a JSON object, an error for anything else
TypesOf(d) ==
    IF d.branch = "json"
    THEN [exc |-> NoExc, msg |-> "", value |-> IF d.body.hasTypes THEN d.body.types ELSE <<>>]
    ELSE [exc |-> GingrClientError, msg |-> "get_reservation_types()", value |-> <<>>]

\* Reservation.from_csv(row): int(row["id"]) and the other columns
ReservationFromCsv(row) ==
    LET id == IntOf(row.id)
    IN  [exc |-> id.exc, value |-> [id |-> id.value]]

RECURSIVE ReservationsFromCsv(_)
\* [Reservation.from_csv(row) for row in rows]
ReservationsFromCsv(rows) ==
    IF rows = <<>> THEN [exc |-> NoExc, value |-> <<>>]
    ELSE LET r == ReservationFromCsv(Head(rows))
             rest == ReservationsFromCsv(Tail(rows))
         IN  IF r.exc # NoExc THEN [exc |-> r.exc, value |-> <<>>]
             ELSE IF rest.exc # NoExc THEN rest
             ELSE [exc |-> NoExc, value |-> <<r.value>> \o rest.value]

\* get_reservations after its post returned d: one record per CSV row; a
\* result that is no CSV gives no records when iterating it gives nothing
\* (an empty page, a JSON object without keys), and cannot be read otherwise
RowsOf(d) ==
    LET failed == [exc |-> GingrClientError, msg |-> "get_reservations()", value |-> <<>>]
        nothing == [exc |-> NoExc, msg |-> "", value |-> <<>>]
    IN  IF d.branch = "csv"
        THEN LET R == ReservationsFromCsv(d.body.rows)
             IN  IF R.exc # NoExc THEN failed
                 ELSE [exc |-> NoExc, msg |-> "", value |-> R.value]
        ELSE IF d.branch = "json" /\ d.body.error = "absent" /\ d.body.success = "absent"
                /\ ~d.body.hasTypes
             THEN nothing
        ELSE IF d.branch = "html" /\ d.body.lines = <<>> THEN nothing
        ELSE failed

\* str.replace(old, new), token for token
SeqReplace(s, old, new) == [i \in 1..Len(s) |-> IF s[i] = old THEN new ELSE s[i]]

\* A row of the page's table: the number of its <td> cells, the src of the
\* <img> in the first (None without an <img>) and the name of the <select>
\* in the second (None without a <select>).
Row(tds, src, name) == [tds |-> tds, src |-> src, name |-> name]

UntaggedImage(file_id, url) == [file_id |-> file_id, url |-> url]

RECURSIVE UntaggedImagesUntilGap(_)
UntaggedImagesUntilGap(trs) ==
    IF trs = <<>> THEN [exc |-> NoExc, value |-> <<>>]
    ELSE LET row == Head(trs)
             rest == UntaggedImagesUntilGap(Tail(trs))
             id == IntOf(SeqFilter(row.name, {"files[", "][file][]"}))
         IN  IF row.tds = 0 THEN [exc |-> "IndexError", value |-> <<>>]
             ELSE IF row.src = None THEN [exc |-> NoExc, value |-> <<>>]
             ELSE IF row.tds < 2 THEN [exc |-> "IndexError", value |-> <<>>]
             ELSE IF row.name = None THEN [exc |-> NoExc, value |-> <<>>]
             ELSE IF id.exc # NoExc THEN [exc |-> id.exc, value |-> <<>>]
             ELSE IF rest.exc # NoExc THEN rest
             ELSE [exc |-> NoExc,
                   value |-> <<UntaggedImage(id.value, SeqReplace(row.src, "https ", "https:"))>>
                             \o rest.value]

RECURSIVE UntaggedImages(_)
\* the loop of get_untagged_images over the rows: a row without <img> or
\* without <select> is skipped (TypeError); a row short of cells, or whose
\* select name holds no number, ends the call with the error
UntaggedImages(trs) ==
    IF trs = <<>> THEN [exc |-> NoExc, value |-> <<>>]
    ELSE LET row == Head(trs)
             rest == UntaggedImages(Tail(trs))
             id == IntOf(SeqFilter(row.name, {"files[", "][file][]"}))
         IN  IF row.tds = 0 THEN [exc |-> "IndexError", value |-> <<>>]
             ELSE IF row.src = None THEN rest
             ELSE IF row.tds < 2 THEN [exc |-> "IndexError", value |-> <<>>]
             ELSE IF row.name = None THEN rest
             ELSE IF id.exc # NoExc THEN [exc |-> id.exc, value |-> <<>>]
             ELSE IF rest.exc # NoExc THEN rest
             ELSE [exc |-> NoExc,
                   value |-> <<UntaggedImage(id.value, SeqReplace(row.src, "https ", "https:"))>>
                             \o rest.value]

\* get_untagged_images after its get returned d: the first <tbody> of the
\* page (nothing but text can be parsed)
GetUntaggedImages(d) ==
    IF d.branch # "html" THEN [exc |-> "TypeError", value |-> <<>>]
    ELSE IF ~d.body.table.tbody THEN [exc |-> NoExc, value |-> <<>>]
    ELSE UntaggedImages(d.body.table.trs)

\* the line of a profile page that holds the animal: " var animal = ",
\* the JSON object and ";\n"
AnimalMarker == " var animal = "

\* Animal._extract_animal_info: the object of the first line that holds the
\* marker, a field of it being a pair of tokens (its name, its value)
ExtractAnimalInfo(lines) ==
    LET hits == {i \in 1..Len(lines) : Contains(lines[i], AnimalMarker)}
        line == lines[CHOOSE i \in hits : \A j \in hits : i <= j]
        json == SeqFilter(line, {AnimalMarker})
        object == SubSeq(json, 1, Len(json) - 2)
    IN  IF hits = {} THEN [exc |-> "ValueError", value |-> <<>>]
        ELSE IF object = <<>> \/ object[1] # "{" \/ object[Len(object)] # "}"
        THEN [exc |-> "JSONDecodeError", value |-> <<>>]
        ELSE [exc |-> NoExc, value |-> SubSeq(object, 2, Len(object) - 1)]

\* info[name]
InfoField(info, name) ==
    LET at == {i \in 1..Len(info) : i % 2 = 1 /\ info[i] = name}
    IN  IF at = {} THEN [exc |-> KeyError, value |-> ""]
        ELSE [exc |-> NoExc, value |-> info[(CHOOSE i \in at : \A j \in at : j <= i) + 1]]

\* Animal.from_html, of the fields of an Animal its id and its name
AnimalFromHtml(lines) ==
    LET info == ExtractAnimalInfo(lines)
        name == InfoField(info.value, "animal_name")
    IN  IF info.exc # NoExc THEN [exc |-> info.exc, value |-> <<>>]
        ELSE IF name.exc # NoExc THEN [exc |-> name.exc, value |-> <<>>]
        ELSE [exc |-> NoExc, value |-> [id |-> 1, name |-> name.value]]

\* get_animal after its get returned d: any exception of Animal.from_html
\* (nothing but text can be read) becomes GingrClientError("get_animal()")
GetAnimal(d) ==
    LET A == IF d.branch # "html" THEN [exc |-> "TypeError", value |-> <<>>]
             ELSE AnimalFromHtml(d.body.lines)
    IN  IF A.exc # NoExc
        THEN [exc |-> GingrClientError, msg |-> "get_animal()", value |-> <<>>]
        ELSE [exc |-> NoExc, msg |-> "", value |-> A.value]

\* What the accessor in progress does with the result d of its get or post
\* (the answer resp, dispatched): the exception or value it ends with, or
\* the request it goes on with (next), and what becomes of the cache and of
\* its locals. get and post return d; get_reservation_types returns the list
\* in it, which the cache keeps; get_reservations goes on to its POST with
\* the list, and returns the rows of the POST's result; clear_bulk_upload
\* reads the images off the page and calls delete_image for one after the
\* other.
AccessorStep(resp, d) ==
    LET same == [exc |-> d.exc, msg |-> d.msg, value |-> <<>>, next |-> NoCall,
                 cache |-> reservation_types, fetched |-> fetched, args |-> args]
    IN  IF d.exc # NoExc \/ call.name \in {"get", "post"} THEN same
        ELSE IF call.name = "get_animal"
        THEN LET A == GetAnimal(d)
             IN  [same EXCEPT !.exc = A.exc, !.msg = A.msg, !.value = A.value]
        ELSE IF call.url = ReservationTypesUrl
        THEN LET T == TypesOf(d)
             IN  IF T.exc # NoExc THEN [same EXCEPT !.exc = T.exc, !.msg = T.msg]
                 ELSE [same EXCEPT
                         !.value = T.value,
                         !.cache = CacheStore(T.value, now),
                         !.fetched = [at |-> now, value |-> T.value],
                         !.args = [args EXCEPT !.types = T.value],
                         !.next = IF call.name = "get_reservation_types"
                                  THEN NoCall ELSE ReportCall]
        ELSE IF call.url = ReservationsUrl
        THEN LET R == RowsOf(d)
             IN  [same EXCEPT !.exc = R.exc, !.msg = R.msg, !.value = R.value]
        ELSE IF call.url = BulkUploadUrl
        THEN LET G == GetUntaggedImages(d)
             IN  IF G.exc # NoExc THEN [same EXCEPT !.exc = G.exc]
                 ELSE IF call.name = "get_untagged_images"
                 THEN [same EXCEPT !.value = G.value]
                 ELSE IF G.value = <<>> THEN same
                 ELSE [same EXCEPT
                         !.args = [args EXCEPT !.images = G.value, !.todo = 1],
                         !.next = DeleteCall(G.value[1].file_id)]
        ELSE LET file_id == args.images[args.todo].file_id
                 served == IF resp.of = "resource"
                           THEN args.served \cup {file_id} ELSE args.served
             IN  IF args.todo < Len(args.images)
                 THEN [same EXCEPT
                         !.args = [args EXCEPT !.todo = args.todo + 1, !.served = served],
                         !.next = DeleteCall(args.images[args.todo + 1].file_id)]
                 ELSE [same EXCEPT !.args = [args EXCEPT !.served = served]]

\* The operation in progress takes the result d of its get or post.
Continue(resp, d, expired, login) ==
    LET seen == [last EXCEPT !.answered = TRUE, !.resp = resp, !.expired = expired,
                             !.relogin = expired \/ last.relogin,
                             !.login = login,
                             !.dispatched = TRUE, !.branch = d.branch,
                             !.ret = IF d.exc = NoExc THEN d.body ELSE Bytes]
    IN  \E O \in {AccessorStep(resp, d)} :
            /\ reservation_types' = O.cache
            /\ fetched' = O.fetched
            /\ args' = O.args
            /\ IF O.next = NoCall
               THEN /\ pc' = "idle"
                    /\ call' = NoCall
                    /\ last' = [seen EXCEPT !.done = TRUE, !.exc = O.exc, !.msg = O.msg,
                                            !.value = O.value]
                    /\ UNCHANGED attempts
               ELSE /\ pc' = "loop"
                    /\ call' = O.next
                    /\ attempts' = 0
                    /\ last' = seen

\* One attempt of the loop is answered with resp: a redirect to the login
\* URL makes the client log in again, then resp is dispatched by content
\* type and the operation goes on with the result.
Answered(resp, env) ==
    /\ pc = "loop"
    /\ Retrying(attempts)
    /\ IF SessionExpired(resp)
       THEN \E L \in {Login(username, timeout, nsid + 1, env)} :
              /\ reqs' = Append(reqs, Attempt(FALSE)) \o L.reqs
              /\ IF L.exc # NoExc
                 THEN /\ pc' = "idle"
                      /\ call' = NoCall
                      /\ last' = [last EXCEPT !.answered = TRUE, !.resp = resp,
                                              !.expired = TRUE, !.relogin = TRUE,
                                              !.branch = "none", !.done = TRUE,
                                              !.exc = L.exc, !.msg = L.msg,
                                              !.login = [ran |-> TRUE, jar |-> L.jar,
                                                         dash |-> L.dash]]
                      /\ apikey' = IF L.assigned THEN L.apikey ELSE apikey
                      /\ UNCHANGED <<files, session, nsid, reservation_types,
                                     fetched, attempts, args>>
                 ELSE /\ session' = L.session
                      /\ apikey' = L.apikey
                      /\ nsid' = nsid + 1
                      /\ files' = [files EXCEPT ![CookieFile(username)] =
                                                  save_cookies(L.session.cookies)]
                      /\ Continue(resp, GetFromContentType(resp), TRUE,
                                  [ran |-> TRUE, jar |-> L.jar, dash |-> L.dash])
       ELSE /\ reqs' = Append(reqs, Attempt(FALSE))
            /\ UNCHANGED <<files, apikey, session, nsid>>
            /\ Continue(resp, GetFromContentType(resp), FALSE, last.login)
    /\ UNCHANGED <<username, timeout, now, aside>>

\* Every answer among answers to the attempt, with every login that can
\* follow it.
Answers(answers, posts) ==
    \E resp \in answers : \E env \in LoginsAfter(resp, posts) : Answered(resp, env)

\* A caller uses the client's session directly, with or without a timeout
\* keyword.
DirectRequest(kw) ==
    /\ pc = "idle"
    /\ reqs' = <<Logged(SessionRequest(session, "GET", ResourceUrl, kw, TRUE, <<>>),
                        "direct", FALSE)>>
    /\ last' = NoOutcome("request", now)
    /\ UNCHANGED <<files, pc, username, timeout, apikey, session, reservation_types, now,
                   nsid, call, attempts, fetched, args, aside>>

\* Time passes.
Tick ==
    /\ now < MaxTicks * Quantum
    /\ now' = now + Quantum
    /\ UNCHANGED <<files, pc, username, timeout, apikey, session, reservation_types,
                   nsid, call, attempts, reqs, last, fetched, args, aside>>

\* ---------------------------------------------------- the Icons value

\* Icons.from_json(resp)
FromJson(resp) ==
    /\ icons.stage = "none"
    /\ \E I \in {IconsFromJson(resp)} :
          icons' = [NoIcons EXCEPT !.stage = "built", !.resp = resp,
                                   !.templates = I.templates,
                                   !.animal_icons = I.animal_icons]
    /\ UNCHANGED <<files, pc, username, timeout, apikey, session, reservation_types, now,
                   nsid, call, attempts, reqs, last, fetched, args, environ, computed>>

\* for template, animal_icon in icons: ...
Iterate ==
    /\ icons.stage = "built"
    /\ \E R \in {IconsIter(icons.templates, FlatIcons(icons.animal_icons))} :
          icons' = [icons EXCEPT !.stage = "iterated", !.yielded = R.yielded, !.exc = R.exc]
    /\ UNCHANGED <<files, pc, username, timeout, apikey, session, reservation_types, now,
                   nsid, call, attempts, reqs, last, fetched, args, environ, computed>>

\* The Icons value is dropped.
Forget ==
    /\ icons.stage = "iterated"
    /\ icons' = NoIcons
    /\ UNCHANGED <<files, pc, username, timeout, apikey, session, reservation_types, now,
                   nsid, call, attempts, reqs, last, fetched, args, environ, computed>>

\* ---------------------------------------------------- pure functions

\* Client.unzip(content)
UnzipCall(content) ==
    /\ computed.fn = "none"
    /\ \E U \in {Unzip(content)} :
          computed' = [fn |-> "unzip", input |-> content, exc |-> U.exc, msg |-> U.msg,
                       value |-> U.value]
    /\ UNCHANGED client

\* list(self._extract_csv(response)) for a response of that content
ExtractCsvCall(content) ==
    /\ computed.fn = "none"
    /\ \E X \in {ExtractCsv(content)} :
          computed' = [fn |-> "_extract_csv", input |-> content, exc |-> X.exc,
                       msg |-> X.msg, value |-> X.rows]
    /\ UNCHANGED client

\* dt_helper(x) and dt_helper_raise(x), in an interpreter that reads the
\* basic ISO format or not, in a process of local time tz
DtHelperCall(x, basic, tz) ==
    /\ computed.fn = "none"
    /\ computed' = [fn |-> "dt_helper", input |-> [x |-> x, basic |-> basic, tz |-> tz],
                    exc |-> NoExc, msg |-> "", value |-> DtHelper(x, basic, tz)]
    /\ UNCHANGED client

DtHelperRaiseCall(x, basic, tz) ==
    /\ computed.fn = "none"
    /\ \E R \in {DtHelperRaise(x, basic, tz)} :
          computed' = [fn |-> "dt_helper_raise",
                       input |-> [x |-> x, basic |-> basic, tz |-> tz],
                       exc |-> R.exc, msg |-> R.msg, value |-> R.value]
    /\ UNCHANGED client

\* The result is dropped.
Return ==
    /\ computed.fn # "none"
    /\ computed' = NotComputed
    /\ UNCHANGED client

\* ------------------------------------------------------ specifications

OnePost == {<<Cookie(HostDomain, SessName, <<"s1">>)>>}

\* The session lifecycle and get/post, under every answer of the server.
Next ==
    \/ Constructs(Usernames, Timeouts, PostCookieChoices)
    \/ Discard
    \/ \E name \in {"get", "post"} : StartCall(name)
    \/ TransportError
    \/ TooManyBadRequests
    \/ Answers(AllAnswers, PostCookieChoices)
    \/ \E kw \in Timeouts \cup {NoKw} : DirectRequest(kw)

Spec == Init /\ [][Next]_vars

\* The reservation accessors and their cache while time passes, for one
\* user and one jar of cookies.
NextCache ==
    \/ Constructs({"ann"}, {DefaultTimeout}, OnePost)
    \/ Discard
    \/ \E name \in {"get", "get_reservation_types", "get_reservations"} : StartCall(name)
    \/ TransportError
    \/ TooManyBadRequests
    \/ Answers(AllAnswers, OnePost)
    \/ Tick

SpecCache == Init /\ [][NextCache]_vars

\* The rows a bulk_upload page may hold: an image with its file id, an
\* image without a <select>, a row without an image, a row of one cell, a
\* select whose name holds no number.
ImageRow(digits) ==
    Row(2, <<"https ", "//files/", "img">> \o digits, <<"files[">> \o digits \o <<"][file][]">>)

Tables ==
    {NoTable,
     [tbody |-> TRUE, trs |-> <<>>],
     [tbody |-> TRUE, trs |-> <<ImageRow(<<"7">>)>>],
     [tbody |-> TRUE, trs |-> <<ImageRow(<<"1", "2">>), ImageRow(<<"7">>)>>],
     [tbody |-> TRUE, trs |-> <<Row(2, None, None), ImageRow(<<"7">>)>>],
     [tbody |-> TRUE, trs |-> <<Row(2, <<"https ", "//files/", "img">>, None), ImageRow(<<"7">>)>>],
     [tbody |-> TRUE, trs |-> <<ImageRow(<<"7">>), Row(1, <<"https ", "//files/", "img">>, None)>>],
     [tbody |-> TRUE, trs |-> <<ImageRow(<<"7">>), ImageRow(<<"x">>)>>],
     [tbody |-> TRUE, trs |-> <<Row(0, None, None)>>]}

Page(table) ==
    Response(200, NoHeader, CtHtml, [Html(<<OtherLine>>) EXCEPT !.table = table], "resource")

CsvAnswers ==
    {Response(200, NoHeader, CtCsv, Csv(rows), "resource") :
        rows \in {<<>>, <<CsvRow(<<"7">>)>>, <<CsvRow(<<"1", "2">>), CsvRow(<<"7">>)>>,
                  <<CsvRow(<<"7">>), CsvRow(<<"id">>)>>}}

PlainAnswers ==
    {Response(200, NoHeader, CtHtml, Html(<<OtherLine>>), "resource"),
     Response(200, NoHeader, CtJson, Json("absent", "True", FALSE, <<>>), "resource"),
     Response(200, NoHeader, CtJson, Json("'denied'", "absent", FALSE, <<>>), "resource"),
     RedirectToLogin}

AnimalIds == {1, 4}

AnimalNames == <<"Rex", "", "", "Bo">>

\* the profile page of an animal, and pages whose payload lacks the name
\* or is cut
AnimalPage(id) ==
    Response(200, NoHeader, CtHtml,
             Html(<<OtherLine,
                    <<AnimalMarker, "{", "id", Digits[id + 1], "animal_name", AnimalNames[id],
                      "}", ";", "\n">>>>),
             "resource")

BadAnimalPages ==
    {Response(200, NoHeader, CtHtml, Html(<<OtherLine, payload>>), "resource") :
        payload \in {<<AnimalMarker, "{", "id", "4", "}", ";", "\n">>,
                     <<AnimalMarker, "{", "id", "4", "animal_name", "Bo", "}">>}}

\* What the server may answer a request of an accessor for url with.
AnswersTo(url) ==
    IF url = BulkUploadUrl THEN {Page(t) : t \in Tables} \cup PlainAnswers
    ELSE IF \E id \in AnimalIds : url = AnimalUrl(id)
         THEN {AnimalPage(id) : id \in {i \in AnimalIds : url = AnimalUrl(i)}}
              \cup BadAnimalPages \cup PlainAnswers
    ELSE IF url = ReservationTypesUrl
         THEN {Response(200, NoHeader, CtJson, Json("absent", "absent", TRUE, t), "resource") :
                  t \in TypeLists} \cup PlainAnswers
    ELSE IF url = ReservationsUrl THEN CsvAnswers \cup PlainAnswers
    ELSE PlainAnswers

ReportDates == {NoDate, Date(2023, 12, 31), Date(2024, 2, 28)}
ReportDays == {-1, 0, 1, 2}
Todays == {Date(2023, 2, 28)}

\* The accessors get_reservations and clear_bulk_upload, with their
\* arguments, for one user.
NextAccessors ==
    \/ Constructs({"ann"}, {DefaultTimeout}, OnePost)
    \/ Discard
    \/ \E date \in ReportDates, days \in ReportDays, today \in Todays :
          Call("get_reservations",
               [NoArgs EXCEPT !.date = date, !.days = days, !.today = today])
    \/ \E name \in {"get_untagged_images", "clear_bulk_upload"} : Call(name, NoArgs)
    \/ \E id \in AnimalIds : Call("get_animal", [NoArgs EXCEPT !.animal_id = id])
    \/ TransportError
    \/ TooManyBadRequests
    \/ Answers(AnswersTo(call.url), OnePost)

SpecAccessors == Init /\ [][NextAccessors]_vars

\* The environments the program may be started in: each login detail
\* unset, empty or given, MAX_RETRIES unset or given.
Environs ==
    {Environ(subdomain, user, password, retries) :
        subdomain \in {Unset, <<>>, <<Subdomain>>},
        user \in {Unset, <<>>, <<"ann">>, <<"bob">>},
        password \in {Unset, <<>>, <<Password>>},
        retries \in {Unset, <<"0">>, <<"1">>}}

\* JSON objects with and without the fields "error" and "success"
JsonObjects ==
    {Response(200, NoHeader, CtJson, Json(error, success, FALSE, <<>>), "resource") :
        error \in {"absent", "False", "''", "'denied'"},
        success \in {"absent", "True", "False", "None"}}

EnvAnswers ==
    JsonObjects \cup {Response(200, NoHeader, CtHtml, Html(<<OtherLine>>), "resource"),
                      RedirectToLogin}

InitEnv == Started /\ environ \in Environs

\* A program that makes its client with Client.from_env() and calls get and
\* post, in any environment.
NextEnv ==
    \/ FromEnv
    \/ Discard
    \/ \E name \in {"get", "post"} : StartCall(name)
    \/ TransportError
    \/ TooManyBadRequests
    \/ Answers(EnvAnswers, OnePost)

\* A request is answered or raises (it carries a timeout), and the loop
\* goes on.
LoopStep == TransportError \/ TooManyBadRequests \/ Answers(EnvAnswers, OnePost)

SpecEnv == InitEnv /\ [][NextEnv]_vars /\ WF_vars(LoopStep)

\* The answers to get_icons: templates 1 and 2 (or none, or one id twice),
\* and up to two animals with system and custom icons, among them icons
\* whose id no template has.
TemplateJson(id, title) == [id |-> id, title |-> title]
SystemIconJson(id) == [type |-> "system", id |-> id, title |-> "sys"]
CustomIconJson(id, a_id) ==
    [type |-> "custom", color_label_template_id |-> id, animal_id |-> a_id]

\* the templates of a response: their ids are the server's keys, no two
\* templates share one
TemplateLists ==
    {<<>>, <<TemplateJson(<<"1">>, "a")>>,
     <<TemplateJson(<<"1">>, "a"), TemplateJson(<<"2">>, "b")>>,
     <<TemplateJson(<<"2">>, "b"), TemplateJson(<<"1">>, "a")>>}

IconLists(a_id) ==
    {<<>>, <<SystemIconJson(<<"1">>)>>, <<CustomIconJson(<<"1">>, a_id)>>,
     <<SystemIconJson(<<"3">>), CustomIconJson(<<"2">>, a_id)>>,
     <<SystemIconJson(<<"3">>), [SystemIconJson(<<"3">>) EXCEPT !.title = "late"]>>,
     <<CustomIconJson(<<"3">>, a_id)>>}

AnimalDicts ==
    {<<>>}
    \cup {<<[key |-> <<"5">>, value |-> l]>> : l \in IconLists(<<"5">>)}
    \cup {<<[key |-> <<"5">>, value |-> l], [key |-> <<"6">>, value |-> m]>> :
             l \in IconLists(<<"5">>), m \in IconLists(<<"6">>)}

IconResponses == {[animal_templates |-> t, animals |-> a] : t \in TemplateLists, a \in AnimalDicts}

NextIcons ==
    \/ \E resp \in IconResponses : FromJson(resp)
    \/ Iterate
    \/ Forget

SpecIcons == Init /\ [][NextIcons]_vars

\* ---------------------------------------------------------------- claims

\* the attempts of get/post among the requests logged
AttemptsMade == {i \in DOMAIN reqs : reqs[i].role = "attempt"}
AttemptsRaised == {i \in AttemptsMade : reqs[i].raised}

\* the response is a redirect to the login URL of the client's subdomain
RedirectsToLogin(resp) ==
    /\ resp.status_code = 302
    /\ resp.location # NoHeader
    /\ resp.location = <<"https://", Subdomain, ".gingrapp.com", "/auth/login">>

\* C1: get and post alike give every call a budget of MAX_RETRIES transport
\* attempts, counted from zero in every call: the counter equals the number
\* of attempts of this call that raised, no call makes more than MAX_RETRIES
\* attempts, and a call all of whose attempts raised made exactly
\* MAX_RETRIES of them and raised GingrClientError("Too many bad requests").
C1_RetryBudget ==
    /\ Cardinality(AttemptsMade) <= MAX_RETRIES
    /\ pc = "loop" => attempts = Cardinality(AttemptsRaised)
    /\ (last.op \in {"get", "post"} /\ last.done /\ AttemptsRaised = AttemptsMade)
          => /\ Cardinality(AttemptsMade) = MAX_RETRIES
             /\ last.exc = GingrClientError
             /\ last.msg = "Too many bad requests"

\* a post gave up after MAX_RETRIES attempts that all raised
C1_Witness ==
    /\ last.op = "post" /\ last.done /\ last.msg = "Too many bad requests"
    /\ Cardinality(AttemptsRaised) = MAX_RETRIES

\* C2: a get or post that met an expired session and logged in again
\* returns the data of the requested resource, on the new session.
C2_TransparentReauth ==
    (last.op \in {"get", "post"} /\ last.done /\ last.relogin /\ last.exc = NoExc)
        => /\ session.sid = nsid
           /\ last.resp.of = "resource"

\* C3: a construction without a cookie file starts with the login; one with
\* a cookie file starts with the dashboard probe, unfollowed, and logs in
\* when the probe is redirected to the login URL; when the probe is answered
\* and not redirected to the login URL, no request goes to the auth URL.
C3_EstablishSession ==
    (last.op = "construct" /\ last.done) =>
        /\ reqs # <<>>
        /\ ~last.existed =>
              /\ reqs[1].role = "login"
              /\ reqs[1].req.method = "GET" /\ reqs[1].req.url = AuthUrl
        /\ last.existed =>
              /\ reqs[1].role = "probe"
              /\ reqs[1].req.url = DashUrl /\ ~reqs[1].req.allow_redirects
        /\ (last.existed /\ last.answered /\ RedirectsToLogin(last.resp)) =>
              /\ Len(reqs) >= 2
              /\ reqs[2].role = "login"
              /\ reqs[2].req.method = "GET" /\ reqs[2].req.url = AuthUrl
        /\ (last.existed /\ last.answered /\ ~RedirectsToLogin(last.resp)) =>
              \A i \in DOMAIN reqs : reqs[i].req.url # AuthUrl

\* a client was constructed on the cookies of its file, without a login
C3_Witness ==
    /\ pc = "idle" /\ last.op = "construct" /\ last.existed
    /\ last.answered /\ ~RedirectsToLogin(last.resp)
    /\ Len(reqs) = 1

\* C4: a client that exists has an apikey.
C4_ApikeySet == pc # "none" => apikey # None

\* a client constructed on reused cookies has logged in again inside a call
C4_Witness ==
    /\ pc = "idle" /\ last.op \in {"get", "post"} /\ last.relogin /\ last.exc = NoExc
    /\ nsid = 2 /\ session.sid = 2

\* C5: an operation that fails raises GingrClientError and nothing else.
C5_OnlyGingrClientError == last.done => last.exc \in {NoExc, GingrClientError}

\* C6: for 3600 seconds after the server gave the list of reservation
\* types, get_reservation_types and get_reservations send no request for it,
\* and get_reservation_types returns that list without any request; get is
\* not memoized; a get_reservation_types that raised left nothing in the
\* cache that the next call could use.
C6_ReservationTypesCached ==
    LET fresh == last.prior.at >= 0 /\ last.at - last.prior.at < 3600
        lookup == last.op \in {"get_reservation_types", "get_reservations"}
    IN  /\ (lookup /\ fresh) =>
              \A i \in DOMAIN reqs : reqs[i].req.url # ReservationTypesUrl
        /\ (last.op = "get_reservation_types" /\ last.done /\ fresh) =>
              /\ reqs = <<>>
              /\ last.exc = NoExc
              /\ last.value = last.prior.value
        /\ (last.op = "get" /\ last.done) => reqs # <<>>
        /\ (last.op = "get_reservation_types" /\ last.done /\ last.exc # NoExc) =>
              /\ fetched = last.prior
              /\ ~(reservation_types.full /\ now < reservation_types.expires)

\* get_reservations ran on the list fetched earlier, after time had passed
C6_Witness ==
    /\ last.op = "get_reservations" /\ last.done /\ last.exc = NoExc
    /\ last.prior.at >= 0 /\ last.at > last.prior.at /\ last.at - last.prior.at < 3600
    /\ reqs # <<>>

\* the branch the Content-Type header asks for, in the order of the claim
BranchOrder(ct) ==
    IF ct = <<"application/csv">> \/ ct = <<"\"text/csv\"">> THEN "csv"
    ELSE IF ct # NoHeader /\ Contains(ct, "application/json") THEN "json"
    ELSE IF ct # NoHeader /\ Contains(ct, "text/html") THEN "html"
    ELSE "raw"

\* C7: every response that get or post dispatches takes exactly one of the
\* branches csv, json, html, raw: the first in that order that its
\* Content-Type header asks for, raw when none does.
C7_ExactlyOneBranch ==
    last.dispatched => last.branch = BranchOrder(last.resp.content_type)

\* C8: every request carries the caller's timeout keyword when there is
\* one, and the timeout given at construction otherwise.
C8_EveryRequestHasTimeout ==
    \A i \in DOMAIN reqs :
        reqs[i].req.timeout =
            IF reqs[i].req.kw # NoKw THEN reqs[i].req.kw
            ELSE IF last.op = "construct" THEN last.t ELSE timeout

\* a request with a timeout keyword of its own, on the session of a re-login
C8_Witness ==
    /\ reqs # <<>> /\ reqs[1].role = "direct"
    /\ reqs[1].req.kw # NoKw /\ reqs[1].req.kw # timeout
    /\ timeout # DefaultTimeout
    /\ session.sid = 2

\* C9: a client constructed on the cookies of its cookie file starts with
\* the name/value pairs of the cookies in the file.
C9_CookiesReloadedFaithfully ==
    (pc = "idle" /\ last.op = "construct" /\ last.existed /\ last.answered /\ ~last.expired)
        => Pairs(session.cookies) = Pairs(load_cookies(files[CookieFile(username)]))

\* C10: _session_expired is True exactly for a 302 whose Location header is
\* the auth URL.
C10_SessionExpired == last.answered => (last.expired <=> RedirectsToLogin(last.resp))

\* a get was answered with the redirect to the login URL
C10_Witness ==
    /\ last.op = "get" /\ last.done /\ last.answered /\ last.expired
    /\ last.resp.status_code = 302

\* the attempts of the call that were answered, in the order sent
RECURSIVE AnsweredUrls(_)
AnsweredUrls(log) ==
    IF log = <<>> THEN <<>>
    ELSE IF Head(log).role = "attempt" /\ ~Head(log).raised
         THEN <<Head(log).req.url>> \o AnsweredUrls(Tail(log))
         ELSE AnsweredUrls(Tail(log))

\* C11: when clear_bulk_upload returns, it has sent, after the request for
\* the page, one delete request GET /report_cards/delete_file/id/<file_id>
\* for every image of the page, in page order, and the server has served
\* the delete request of every one of them: none remains undeleted.
C11_ClearBulkUpload ==
    (last.op = "clear_bulk_upload" /\ last.done /\ last.exc = NoExc) =>
        /\ AnsweredUrls(reqs) =
              <<BulkUploadUrl>> \o
              [i \in 1..Len(args.images) |->
                  <<"https://", Subdomain, ".gingrapp.com", "/report_cards/delete_file/id/">>
                  \o Pad(args.images[i].file_id, 1)]
        /\ \A i \in 1..Len(args.images) : args.images[i].file_id \in args.served

\* the days from the end of 2022 to the day y-m-d
DayNumber(y, m, d) ==
    LET before == <<0, 31, 59, 90, 120, 151, 181, 212, 243, 273, 304, 334>>
        leap(k) == k % 4 = 0 /\ (k % 100 # 0 \/ k % 400 = 0)
    IN  365 * (y - 2023) + Cardinality({k \in 2023..(y - 1) : leap(k)})
        + before[m] + (IF m > 2 /\ leap(y) THEN 1 ELSE 0) + d

\* the day number of a text "mm/dd/yyyy" (-1 for any other text)
DayOfText(text) ==
    IF /\ Len(text) = 10 /\ text[3] = "/" /\ text[6] = "/"
       /\ \A i \in {1, 2, 4, 5, 7, 8, 9, 10} : \E j \in 1..10 : Digits[j] = text[i]
    THEN DayNumber(DecimalValue(SubSeq(text, 7, 10)), DecimalValue(SubSeq(text, 1, 2)),
                   DecimalValue(SubSeq(text, 4, 5)))
    ELSE -1

\* the requests of the call (answered or not) that went to url
RequestsTo(url) == {i \in DOMAIN reqs : reqs[i].role = "attempt" /\ reqs[i].req.url = url}

\* C12: every report request of get_reservations is a POST whose data give
\* date_from = the date argument (today without one), date_to = date_from +
\* days_ahead days, the list of reservation types that
\* get_reservation_types gave, cancelled and csv "true"; the request for
\* the reservation types, when one is sent, comes before the report
\* request; and the call returns one Reservation per CSV row, in order.
C12_GetReservations ==
    last.op = "get_reservations" =>
        LET from == IF args.date # NoDate THEN args.date ELSE args.today
        IN  /\ \A i \in RequestsTo(ReservationsUrl) :
                  /\ reqs[i].req.method = "POST"
                  /\ DayOfText(reqs[i].req.data.date_from) = DayNumber(from.y, from.m, from.d)
                  /\ DayOfText(reqs[i].req.data.date_to)
                        = DayNumber(from.y, from.m, from.d) + args.days
                  /\ reqs[i].req.data.type_ids = fetched.value
                  /\ reqs[i].req.data.cancelled = "true"
                  /\ reqs[i].req.data.csv = "true"
                  /\ fetched.at >= 0
                  /\ \A j \in RequestsTo(ReservationTypesUrl) : j < i
            /\ (last.done /\ last.exc = NoExc /\ last.branch = "csv") =>
                  /\ Len(last.value) = Len(last.resp.body.rows)
                  /\ \A k \in 1..Len(last.value) :
                        Pad(last.value[k].id, 1) = last.resp.body.rows[k].id

\* get_reservations for New Year's Eve and the day after returned the two
\* rows of the report, which it had asked for with both reservation types
C12_Witness ==
    /\ last.op = "get_reservations" /\ last.done /\ last.exc = NoExc
    /\ args.date = Date(2023, 12, 31) /\ args.days = 1
    /\ Len(last.value) = 2
    /\ \E i \in RequestsTo(ReservationsUrl) :
          /\ reqs[i].req.data.type_ids = <<1, 2>>
          /\ reqs[i].req.data.date_to = <<"0", "1", "/", "0", "1", "/", "2", "0", "2", "4">>

\* C13: the iteration of an Icons value built by Icons.from_json does not
\* fail; it yields exactly one pair per animal icon, for the animals and
\* their icons in order, and the template of every pair has the id that
\* the animal icon names.
C13_IconsIteration ==
    icons.stage = "iterated" =>
        /\ icons.exc = NoExc
        /\ Len(icons.yielded) = Len(FlatIcons(icons.animal_icons))
        /\ \A k \in 1..Len(icons.yielded) :
              /\ icons.yielded[k].animal_icon = FlatIcons(icons.animal_icons)[k]
              /\ icons.yielded[k].template.id = icons.yielded[k].animal_icon.icon_id

\* the list of reservation types in the answer resp
TypesIn(resp) == IF resp.body.hasTypes THEN resp.body.types ELSE <<>>

\* C14 as stated: accessors keep no state but the session and its cookies.
\* A client never holds anything but what its construction gave it, and
\* what get_reservation_types returns is the list in the server's answer
\* to this call, whatever was called before.
C14_StatelessAccessors ==
    /\ pc # "none" => reservation_types = EmptyCache
    /\ (last.op = "get_reservation_types" /\ last.done /\ last.exc = NoExc) =>
          /\ last.answered
          /\ last.value = TypesIn(last.resp)

\* what a step of an accessor may change of the client: the cache of
\* reservation types, by the list the server just gave for them, and the
\* session with its cookies, cookie file and apikey, by a re-login
AccessorFrame ==
    (pc # "none" /\ pc' # "none") =>
        /\ username' = username
        /\ timeout' = timeout
        /\ reservation_types' # reservation_types =>
              /\ call.url = ReservationTypesUrl
              /\ last'.answered /\ last'.dispatched
              /\ reservation_types'.value = TypesIn(last'.resp)
        /\ (session' # session \/ apikey' # apikey \/ files' # files) =>
              /\ last'.expired /\ last'.relogin /\ last'.login.ran
        /\ session' # session => session'.sid = nsid' /\ nsid' = nsid + 1

\* C14 as amended: accessors keep no state but the session (cookies, cookie
\* file, apikey) and the cache of reservation types. A step of an accessor
\* changes nothing else; get_reservation_types returns the list in the
\* server's answer to this call unless an earlier call got a list less
\* than 3600 seconds before, which it then returns.
C14_StatelessButCache ==
    /\ [][AccessorFrame]_vars
    /\ []((last.op = "get_reservation_types" /\ last.done /\ last.exc = NoExc) =>
            IF last.prior.at >= 0 /\ last.at - last.prior.at < 3600
            THEN last.value = last.prior.value
            ELSE last.answered /\ last.value = TypesIn(last.resp))

\* get_reservation_types asked the server again, the list it had being
\* 3600 seconds old or older, and was given another list
C14_Witness ==
    /\ last.op = "get_reservation_types" /\ last.done /\ last.exc = NoExc
    /\ last.prior.at >= 0 /\ last.at - last.prior.at >= 3600
    /\ last.answered /\ last.value # last.prior.value

\* an environment variable that is set to a text that is not empty
Given(value) == value # Unset /\ value # <<>>

\* the login details the environment gives, all three of them
DetailsGiven ==
    /\ Given(environ.GINGR_SUBDOMAIN)
    /\ Given(environ.GINGR_USERNAME)
    /\ Given(environ.GINGR_PASSWORD)

\* C15: with one of the three login details unset or empty, Client.from_env
\* raises GingrClientError("Login details not provided") and no request is
\* ever sent; with all three it constructs the client of that subdomain,
\* that user and that password, with the default timeout.
C15_FromEnv ==
    /\ ~DetailsGiven =>
          /\ pc = "none" /\ reqs = <<>>
          /\ last.done => /\ last.op = "from_env"
                          /\ last.exc = GingrClientError
                          /\ last.msg = "Login details not provided"
    /\ DetailsGiven =>
          /\ last.op # "from_env"
          /\ (last.op = "construct" /\ last.done) =>
                /\ <<last.user>> = environ.GINGR_USERNAME
                /\ last.t = <<"3.05", "27.0">>
                /\ \A i \in DOMAIN reqs :
                      /\ SubSeq(reqs[i].req.url, 1, 3)
                            = <<"https://">> \o environ.GINGR_SUBDOMAIN \o <<".gingrapp.com">>
                      /\ reqs[i].req.timeout = <<"3.05", "27.0">>
                      /\ reqs[i].req.method = "POST" =>
                            SubSeq(reqs[i].req.data, 1, 2)
                              = environ.GINGR_USERNAME \o environ.GINGR_PASSWORD
          /\ pc # "none" =>
                /\ <<username>> = environ.GINGR_USERNAME
                /\ timeout = <<"3.05", "27.0">>

\* from_env raised for a password that is set but empty
C15_Witness ==
    /\ last.op = "from_env" /\ last.done /\ last.exc = GingrClientError
    /\ Given(environ.GINGR_SUBDOMAIN) /\ Given(environ.GINGR_USERNAME)
    /\ environ.GINGR_PASSWORD = <<>>

\* the requests a login starts with
LoginsMade == {i \in DOMAIN reqs : reqs[i].role = "login" /\ reqs[i].req.method = "GET"
                                    /\ reqs[i].req.url = AuthUrl}

\* the value of MAX_RETRIES that the environment asks for
RetriesAsked ==
    IF environ.MAX_RETRIES = Unset THEN 3
    ELSE IF environ.MAX_RETRIES = <<"0">> THEN 0
    ELSE IF environ.MAX_RETRIES = <<"1">> THEN 1 ELSE 2

\* C18: a call of get or post makes at most MAX_RETRIES attempts and at
\* most one re-login, and it ends: it returns or raises. With MAX_RETRIES =
\* 0 it raises GingrClientError("Too many bad requests") and sends no
\* request. A construction logs in at most once.
C18_Terminates ==
    /\ [](/\ Cardinality(AttemptsMade) <= RetriesAsked
          /\ Cardinality(LoginsMade) <= 1
          /\ (RetriesAsked = 0 /\ last.op \in {"get", "post"}) =>
                /\ reqs = <<>>
                /\ last.done => /\ last.exc = GingrClientError
                                /\ last.msg = "Too many bad requests")
    /\ (pc = "loop") ~> (pc = "idle")

\* with MAX_RETRIES = 0 a get ended
C18_Witness ==
    /\ environ.MAX_RETRIES = <<"0">>
    /\ last.op = "get" /\ last.done /\ last.msg = "Too many bad requests"

\* C19: get and post raise GingrClientError("Error in json response") for a
\* JSON object exactly when it has an "error" field that is truthy or a
\* "success" field that is falsy; any other JSON object is what they
\* return.
C19_JsonError ==
    (last.op \in {"get", "post"} /\ last.done /\ last.dispatched
        /\ last.resp.body.kind = "json" /\ last.branch = "json") =>
        LET error == last.resp.body.error
            success == last.resp.body.success
            bad == \/ error \in {"'denied'", "True"}
                   \/ success \in {"False", "None", "0", "''"}
        IN  /\ bad => /\ last.exc = GingrClientError
                      /\ last.msg = "Error in json response"
            /\ ~bad => /\ last.exc = NoExc
                       /\ last.ret = last.resp.body

\* a JSON object with a falsy "error" and no "success" was returned
C19_Witness ==
    /\ last.op = "post" /\ last.done /\ last.exc = NoExc /\ last.branch = "json"
    /\ last.resp.body.error = "''" /\ last.resp.body.success = "absent"
    /\ last.ret = last.resp.body

\* the requests of the login made in the last operation, in order
LoginRequests == SelectSeq(reqs, LAMBDA r : r.role = "login")

\* the user whose client made that login
LoginUser == IF last.op = "construct" THEN last.user ELSE username

\* C16: a login sends GET auth URL, then POST auth URL with the identity,
\* the password and the value of the 'gingr_csrf_cookie_name' cookie, then
\* GET dashboard with allow_redirects=False, in that order and nothing more;
\* with no CSRF cookie it raises GingrClientError('Unable to get csrf_token')
\* and posts nothing; a dashboard answer that redirects to the login URL
\* raises GingrClientError('Unable to login'); the client holds the session
\* of the login only if the dashboard was answered and did not redirect to
\* the login URL.
C16_LoginOrder ==
    last.login.ran =>
        LET L == LoginRequests
            jar == last.login.jar
            token == JarGet(jar, CsrfName, None)
        IN  /\ Len(L) \in 1..3
            /\ L[1].req.method = "GET" /\ L[1].req.url = AuthUrl
            /\ \A i \in 1..(Len(L) - 1) : ~L[i].raised
            /\ Len(L) >= 2 =>
                  /\ token.exc = NoExc /\ token.value \notin {None, <<>>}
                  /\ L[2].req.method = "POST" /\ L[2].req.url = AuthUrl
                  /\ L[2].req.data = <<LoginUser, Password>> \o token.value
                  /\ L[2].req.sid = L[1].req.sid
            /\ Len(L) = 3 =>
                  /\ L[3].req.method = "GET" /\ L[3].req.url = DashUrl
                  /\ L[3].req.allow_redirects = FALSE
                  /\ L[3].req.sid = L[1].req.sid
            /\ (~L[1].raised /\ \A i \in 1..Len(jar) : jar[i].name # CsrfName) =>
                  /\ last.exc = GingrClientError
                  /\ last.msg = "Unable to get csrf_token"
                  /\ Len(L) = 1
            /\ (Len(L) = 3 /\ ~L[3].raised /\ RedirectsToLogin(last.login.dash)) =>
                  /\ last.exc = GingrClientError
                  /\ last.msg = "Unable to login"
            /\ session.sid = L[1].req.sid =>
                  /\ Len(L) = 3 /\ ~L[3].raised
                  /\ ~RedirectsToLogin(last.login.dash)

\* a get or post logged in again and the client holds the new session
C16_Witness ==
    /\ last.op \in {"get", "post"} /\ last.login.ran
    /\ Len(LoginRequests) = 3
    /\ session.sid = LoginRequests[1].req.sid

\* the attempts of the last call, in order
AttemptsSent == SelectSeq(reqs, LAMBDA r : r.role = "attempt")

\* the login made after the answer of the last call raised
ReloginRaised == last.answered /\ last.expired /\ last.login.ran /\ ~last.dispatched

\* how get and post count and end their attempts: an attempt that was
\* answered is the last one and is not counted, and all attempts are the
\* same request
AnswerEndsLoop ==
    LET A == AttemptsSent
    IN  /\ \A i \in 1..Len(A) : ~A[i].raised => i = Len(A) /\ pc = "idle" /\ last.answered
        /\ \A i \in 1..Len(A) : A[i].req = A[1].req
        /\ attempts = Len(SelectSeq(A, LAMBDA r : r.raised))
        /\ last.answered => ~A[Len(A)].raised /\ last.done

\* every step of the loop is an attempt or the end of the loop: nothing is
\* done between two attempts
NoBackOff ==
    (pc = "loop" /\ pc' = "loop" /\ last' = last) =>
        /\ Len(reqs') = Len(reqs) + 1
        /\ reqs'[Len(reqs')].role = "attempt"
        /\ now' = now

\* C17 as stated: in get and post only transport exceptions consume
\* retries; the first attempt that is answered ends the loop, and the
\* response, whatever its status code, is dispatched by content type and
\* returned, or its JSON error raised; no response is requested again and
\* nothing separates two attempts.
C17_FirstResponseEnds ==
    (last.op \in {"get", "post"}) =>
        /\ AnswerEndsLoop
        /\ last.answered =>
              /\ last.dispatched
              /\ \/ last.exc = NoExc /\ last.ret = last.resp.body
                 \/ last.exc = GingrClientError /\ last.msg = "Error in json response"

\* C17, amended: as stated, except that a response that redirects to the
\* login URL first makes the client log in again, and an exception of that
\* login is raised in place of the dispatch; and that the dispatch raises,
\* besides the JSON error, KeyError for a response without a Content-Type
\* header and the decoding error of a JSON content type whose body is not
\* JSON. In every other case the body is returned, whatever the status code.
C17_FirstResponseEndsOrReloginRaises ==
    /\ [](last.op \in {"get", "post"} =>
            /\ AnswerEndsLoop
            /\ last.answered =>
                  IF RedirectsToLogin(last.resp) /\ ~last.dispatched
                  THEN last.login.ran /\ last.exc # NoExc /\ last.ret = Bytes
                  ELSE /\ last.dispatched
                       /\ IF last.resp.content_type = NoHeader
                          THEN last.exc = KeyError
                          ELSE IF last.branch = "json" /\ last.resp.body.kind # "json"
                          THEN last.exc = RequestException /\ last.msg = "JSONDecodeError"
                          ELSE IF last.branch = "json" /\ last.exc # NoExc
                          THEN last.exc = GingrClientError
                               /\ last.msg = "Error in json response"
                          ELSE last.exc = NoExc /\ last.ret = last.resp.body)
    /\ [][NoBackOff]_vars

\* a get raised twice and was then answered 404: the page is what it
\* returned, and two retries were used
C17_Witness ==
    /\ last.op = "get" /\ last.done /\ last.answered /\ last.dispatched
    /\ attempts = 2 /\ Len(AttemptsSent) = 3
    /\ last.resp.status_code = 404
    /\ last.exc = NoExc /\ last.ret = last.resp.body

\* the step of get or post in which the answer redirects to the login URL
\* and the login that follows raises
ReloginFails ==
    /\ pc = "loop" /\ ~last.answered
    /\ last'.answered /\ RedirectsToLogin(last'.resp)
    /\ last'.login.ran /\ ~last'.dispatched

\* C20: when the login made again inside get or post raises, the call ends
\* with that exception without another attempt, and the client is as
\* before: the same session, the same apikey, the cookie file not
\* rewritten.
C20_FailedReloginChangesNothing ==
    [][ReloginFails =>
          /\ pc' = "idle" /\ last'.done /\ last'.exc # NoExc
          /\ attempts' = attempts
          /\ session' = session
          /\ apikey' = apikey
          /\ files' = files]_vars

\* the answered dashboard requests of the last operation, in order
DashboardRequests(sent) == SelectSeq(sent, LAMBDA r : r.req.url = DashUrl /\ ~r.raised)

\* C21: apikey belongs to the client's session. A step that gives the
\* client another session or another apikey leaves it with the session that
\* fetched the dashboard page last, and with the apikey of that page.
C21_ApikeyOfSession ==
    [][(pc' # "none" /\ (session' # session \/ apikey' # apikey)) =>
          LET D == DashboardRequests(reqs')
              page == IF last'.login.ran THEN last'.login.dash ELSE last'.resp
          IN  /\ D # <<>>
              /\ D[Len(D)].req.sid = session'.sid
              /\ apikey' = ExtractWindowApikey(page.body.lines).value]_vars

\* the longest text taken token by token
MaxTextLen == 4

CsvTokens == {"id", "7", ",", "\n", Doctype}

RECURSIVE TextsOfLen(_)
TextsOfLen(n) ==
    IF n = 0 THEN {<<>>}
    ELSE {Append(t, tok) : t \in TextsOfLen(n - 1), tok \in CsvTokens}

\* every text of up to MaxTextLen tokens, and some reports as the server
\* sends them: a header of two columns, rows that are short, long or empty,
\* the page that follows the report
CsvTexts ==
    UNION {TextsOfLen(n) : n \in 0..MaxTextLen}
    \cup {<<"id", ",", "n", "\n", "7", ",", "8", "\n">>,
          <<"id", ",", "n", "\n", "7", ",", "8", "\n", Doctype, "\n", "<html>", "\n">>,
          <<"id", ",", "n", "\n", "7", "\n", "\n", "7", ",", "8", ",", "9", "\n">>,
          <<"id", ",", "n", "\n", "7", ",", "8", Doctype, "9", ",", "9", "\n", Doctype>>,
          <<"id", ",", "id", "\n", "7", ",", "8", "\n">>}

MemberTexts == {<<>>, <<"id", "\n", "7", "\n">>, <<"id", "\n", "8", "\n", Doctype, "\n">>}

Members ==
    {Member(<<"a.csv">>, u, t) : u \in BOOLEAN, t \in MemberTexts}

Archives ==
    {Archive(<<>>)}
    \cup {Archive(<<m>>) : m \in Members}
    \cup {Archive(<<m, n>>) : m \in Members, n \in {Member(<<"b.csv">>, TRUE, <<"id", "\n", "9", "\n">>)}}

Contents == {Plain(t) : t \in CsvTexts} \cup Archives

NextCsv ==
    \/ \E content \in Contents : UnzipCall(content)
    \/ \E content \in Contents : ExtractCsvCall(content)
    \/ Return

\* unzip and _extract_csv on every content
SpecCsv == Init /\ [][NextCsv]_vars

\* C23 as stated: unzip of any archive returns the UTF-8 decoded content of
\* the first member of the archive.
C23_UnzipFirstMember ==
    (computed.fn = "unzip" /\ computed.input.zip
        /\ computed.input.members # <<>> /\ computed.input.members[1].utf8) =>
        /\ computed.exc = NoExc
        /\ computed.value = computed.input.members[1].text

\* C23, amended: unzip of an archive that holds exactly one member returns
\* the UTF-8 decoded content of that member (and raises the decoding error
\* when the bytes are not UTF-8); for an archive with no member or with
\* several it raises GingrClientError("Not sure which file to read in
\* zip.").
C23_UnzipOnlyMember ==
    (computed.fn = "unzip" /\ computed.input.zip) =>
        LET members == computed.input.members
        IN  IF Len(members) = 1
            THEN IF members[1].utf8
                 THEN computed.exc = NoExc /\ computed.value = members[1].text
                 ELSE computed.exc = "UnicodeDecodeError"
            ELSE /\ computed.exc = GingrClientError
                 /\ computed.msg = "Not sure which file to read in zip."

\* unzip returned the text of the one member of an archive
C23_Witness ==
    /\ computed.fn = "unzip" /\ computed.input.zip
    /\ Len(computed.input.members) = 1
    /\ computed.exc = NoExc /\ computed.value = <<"id", "\n", "7", "\n">>

\* the text the rows of the last _extract_csv have to come from: the text
\* of the archived file, or the response text before its first
\* '<!DOCTYPE html>'
CsvSource ==
    LET c == computed.input
        cuts == {i \in 1..Len(c.text) : c.text[i] = Doctype}
    IN  IF c.zip THEN c.members[1].text
        ELSE IF cuts = {} THEN c.text
        ELSE SubSeq(c.text, 1, (CHOOSE i \in cuts : \A j \in cuts : i <= j) - 1)

\* row is the dict of the fields of one line under the header: each header
\* field is a key, its value the field of the line in its column (the last
\* column of that name; None when the line ends before it), and fields
\* beyond the header are listed under the key None
KeyedBy(row, header, fields) ==
    /\ \A k \in 1..Len(row) :
          \/ \E j \in 1..Len(header) : row[k].key = header[j]
          \/ row[k].key = None /\ Len(fields) > Len(header)
    /\ \A j \in 1..Len(header) :
          /\ DictHas(row, header[j])
          /\ LET columns == {i \in 1..Len(header) : header[i] = header[j]}
                 column == CHOOSE i \in columns : \A n \in columns : n <= i
             IN  DictGet(row, header[j]) =
                    IF column > Len(fields) THEN None ELSE fields[column]
    /\ Len(fields) > Len(header) =>
          /\ DictHas(row, None)
          /\ DictGet(row, None) = SubSeq(fields, Len(header) + 1, Len(fields))

\* C22 as stated: the rows of a body that is a zip archive come from the
\* archived file, those of any other body from the response text before the
\* first '<!DOCTYPE html>'; the first line is the header and each later
\* line gives one dict keyed by it, in line order.
C22_EveryLineARow ==
    (computed.fn = "_extract_csv"
        /\ (computed.input.zip =>
               computed.input.members # <<>> /\ computed.input.members[1].utf8)) =>
        LET rows == computed.value
            lines == StreamLines(CsvSource)
        IN  /\ computed.exc = NoExc
            /\ Len(rows) = Len(SubSeq(lines, 2, Len(lines)))
            /\ \A i \in 1..Len(rows) :
                  KeyedBy(rows[i], CsvFields(lines[1]), CsvFields(lines[i + 1]))

\* C22, amended: _extract_csv reads a body that is a zip archive through
\* unzip, the rows coming from the one archived file (an archive of no file
\* or of several, or of bytes that are not UTF-8, raises), and any other
\* body as the response text before the first '<!DOCTYPE html>', so that
\* nothing after it gives a row; in both cases the first line is the
\* header and each later line that is not empty gives one dict keyed by
\* the header, in line order; empty lines give no row.
C22_ExtractCsv ==
    (computed.fn = "_extract_csv") =>
        LET c == computed.input
            rows == computed.value
            unzipped == c.zip /\ Len(c.members) = 1 /\ c.members[1].utf8
        IN  IF c.zip /\ ~unzipped
            THEN computed.exc # NoExc /\ rows = <<>>
            ELSE LET lines == StreamLines(CsvSource)
                     later == SelectSeq(SubSeq(lines, 2, Len(lines)),
                                        LAMBDA line : line # <<>>)
                 IN  /\ computed.exc = NoExc
                     /\ Len(rows) = Len(later)
                     /\ \A i \in 1..Len(rows) :
                           KeyedBy(rows[i], CsvFields(lines[1]), CsvFields(later[i]))

\* a report of one row that a page follows on the same line, the page
\* holding commas, gave that one row
C22_Witness ==
    /\ computed.fn = "_extract_csv"
    /\ computed.input =
          Plain(<<"id", ",", "n", "\n", "7", ",", "8", Doctype, "9", ",", "9", "\n", Doctype>>)
    /\ computed.value = <<DictSet(DictSet(<<>>, <<"id">>, <<"7">>), <<"n">>, <<"8">>)>>

\* the page the last get_untagged_images was given
PageTable == last.resp.body.table

\* get_untagged_images got a page from its get
GotPage ==
    /\ last.op = "get_untagged_images" /\ last.done
    /\ last.dispatched /\ last.branch = "html"

\* the image of a row of the page: the number in the name of its <select>
\* and the src of its <img>, "https " read as "https:"
ImageOf(row) ==
    [file_id |-> DecimalValue(SubSeq(row.name, 2, Len(row.name) - 1)),
     url |-> [i \in 1..Len(row.src) |-> IF row.src[i] = "https " THEN "https:" ELSE row.src[i]]]

\* C24 as stated: get_untagged_images returns one UntaggedImage per row of
\* the page's table, in row order, and the empty list for a page without
\* table body; it does not fail.
C24_AllImages ==
    GotPage =>
        /\ last.exc = NoExc
        /\ Len(last.value) = Len(PageTable.trs)
        /\ \A i \in 1..Len(last.value) : last.value[i] = ImageOf(PageTable.trs[i])

\* a row that has an <img> in its first cell and a <select> in its second
ImageRowOf(row) == row.tds >= 2 /\ row.src # None /\ row.name # None

\* a row the loop cannot read: no cell at all, an image but no second
\* cell, or a select whose name holds no number
Unreadable(row) ==
    \/ row.tds = 0
    \/ row.tds = 1 /\ row.src # None
    \/ /\ ImageRowOf(row)
       /\ \E i \in 2..(Len(row.name) - 1) : \A j \in 1..10 : Digits[j] # row.name[i]

\* C24, amended: get_untagged_images returns one UntaggedImage per row that
\* has an <img> in its first cell and a <select> in its second, in row
\* order, skipping the rows that lack either; the empty list for a page
\* without table body, without rows or without such rows; and it raises
\* (IndexError, ValueError) when a row cannot be read.
C24_ImageRows ==
    GotPage =>
        IF \E i \in 1..Len(PageTable.trs) : Unreadable(PageTable.trs[i])
        THEN last.exc \in {"IndexError", "ValueError"} /\ last.value = <<>>
        ELSE LET shown == SelectSeq(PageTable.trs, ImageRowOf)
             IN  /\ last.exc = NoExc
                 /\ Len(last.value) = Len(shown)
                 /\ \A i \in 1..Len(shown) : last.value[i] = ImageOf(shown[i])

\* a page of a row without image and a row with one gave the one image
C24_Witness ==
    /\ GotPage /\ last.exc = NoExc
    /\ Len(PageTable.trs) = 2 /\ ~ImageRowOf(PageTable.trs[1])
    /\ last.value = <<[file_id |-> 7, url |-> <<"https:", "//files/", "img", "7">>]>>

\* the object on the profile page the last get_animal was given
ProfileOnPage ==
    LET lines == last.resp.body.lines
    IN  lines[CHOOSE i \in 1..Len(lines) : Contains(lines[i], " var animal = ")]

\* C25: the Animal that get_animal(animal_id) returns has the id animal_id,
\* and is the animal of the profile page it was given.
C25_GetAnimal ==
    (last.op = "get_animal" /\ last.done /\ last.exc = NoExc) =>
        /\ last.value.id = args.animal_id
        /\ Contains(ProfileOnPage, last.value.name)

RECURSIVE IconsInResponse(_)
\* the icons of all animals of a response, in response order
IconsInResponse(animals) ==
    IF animals = <<>> THEN <<>>
    ELSE Head(animals).value \o IconsInResponse(Tail(animals))

\* C26: in the Icons value that from_json builds, every entry of
\* icon_templates.animal_templates is the template under its id; a system
\* animal icon whose id no entry has is given a derived template of type
\* 'system', that of the first such icon in the response; no other template
\* exists; and animal_icons holds every animal id of the response, in
\* order, with that animal's icons in response order.
C26_FromJson ==
    icons.stage = "built" =>
        LET entries == icons.resp.animal_templates
            animals == icons.resp.animals
            all == IconsInResponse(animals)
            number(text) == DecimalValue(text)
            entryIds == {number(entries[i].id) : i \in 1..Len(entries)}
            systems == {i \in 1..Len(all) : all[i].type = "system"}
            systemIds == {number(all[i].id) : i \in systems}
        IN  /\ \A i \in 1..Len(entries) :
                  /\ DictHas(icons.templates, number(entries[i].id))
                  /\ DictGet(icons.templates, number(entries[i].id)) =
                        [id |-> number(entries[i].id), title |-> entries[i].title,
                         type |-> "custom"]
            /\ \A i \in systems :
                  number(all[i].id) \notin entryIds =>
                      LET first == CHOOSE j \in systems :
                                      /\ all[j].id = all[i].id
                                      /\ \A k \in systems : all[k].id = all[i].id => j <= k
                      IN  /\ DictHas(icons.templates, number(all[i].id))
                          /\ DictGet(icons.templates, number(all[i].id)) =
                                [id |-> number(all[i].id), title |-> all[first].title,
                                 type |-> "system"]
            /\ \A k \in 1..Len(icons.templates) :
                  icons.templates[k].key \in entryIds \cup systemIds
            /\ Len(icons.animal_icons) = Len(animals)
            /\ \A a \in 1..Len(animals) :
                  LET got == icons.animal_icons[a].value
                      given == animals[a].value
                  IN  /\ icons.animal_icons[a].key = number(animals[a].key)
                      /\ Len(got) = Len(given)
                      /\ \A i \in 1..Len(given) :
                            /\ got[i].kind = given[i].type
                            /\ got[i].icon_id =
                                  IF given[i].type = "system" THEN number(given[i].id)
                                  ELSE number(given[i].color_label_template_id)

\* a response with template 1, a system icon 1 for one animal and no icon
\* for the other: template 1 is the entry's, and the other animal has an
\* empty list
C26_Witness ==
    /\ icons.stage = "built"
    /\ Len(icons.resp.animal_templates) >= 1
    /\ Len(icons.resp.animals) = 2
    /\ icons.resp.animals[1].value = <<SystemIconJson(<<"1">>)>>
    /\ icons.resp.animals[2].value = <<>>
    /\ DictGet(icons.animal_icons, 6) = <<>>
    /\ DictHas(icons.templates, 1) /\ DictGet(icons.templates, 1).type = "custom"

IsoDates ==
    {y \o <<"-">> \o m \o <<"-">> \o d :
        y \in {<<"2", "0", "2", "3">>, <<"2", "0", "2", "4">>, <<"0", "0", "0", "0">>},
        m \in {<<"0", "2">>, <<"1", "2">>, <<"1", "3">>},
        d \in {<<"0", "1">>, <<"2", "9">>, <<"3", "1">>}}

IsoTimes == {<<"1", "0", ":", "0", "0", ":", "5", "9">>, <<"2", "4", ":", "0", "0", ":", "0", "0">>}

\* the texts given to dt_helper: dates and datetimes in ISO format, valid
\* and not, epoch timestamps, a text that is both, texts that are neither,
\* and None
DateTexts ==
    IsoDates
    \cup {day \o <<sep>> \o time :
             day \in {<<"2", "0", "2", "3", "-", "1", "2", "-", "3", "1">>},
             sep \in {"T", " ", "x"}, time \in IsoTimes}
    \cup {<<"2", "0", "2", "3", "0", "1", "3", "1">>, <<"0">>, <<"8", "6", "4", "0", "0">>,
          <<"9", "0", "0", "6", "1">>, <<"1", "7", "9", "9", "9">>,
          <<>>, <<"a", "b", "c">>, <<"1", "2", "a">>, None}

\* local time: UTC, and five hours west of it
TimeZones == {0, -18000}

NextDates ==
    \/ \E x \in DateTexts, basic \in BOOLEAN, tz \in TimeZones : DtHelperCall(x, basic, tz)
    \/ \E x \in DateTexts, basic \in BOOLEAN, tz \in TimeZones : DtHelperRaiseCall(x, basic, tz)
    \/ Return

\* dt_helper and dt_helper_raise on every text
SpecDates == Init /\ [][NextDates]_vars

\* C27: dt_helper gives the datetime of a text in ISO format, else the
\* datetime of a text that is an integer epoch, else None, and never
\* raises; dt_helper_raise gives the same datetime when there is one and
\* raises ValueError exactly when dt_helper gives None.
C27_DtHelper ==
    (computed.fn \in {"dt_helper", "dt_helper_raise"}) =>
        LET x == computed.input.x
            iso == FromIsoformat(x, computed.input.basic)
            epoch == Timestamp(x, computed.input.tz)
            dt == IF iso.exc = NoExc THEN iso.value
                  ELSE IF epoch.exc = NoExc THEN epoch.value
                  ELSE NoDateTime
        IN  /\ computed.fn = "dt_helper" => computed.exc = NoExc /\ computed.value = dt
            /\ computed.fn = "dt_helper_raise" =>
                  IF dt = NoDateTime
                  THEN computed.exc = "ValueError"
                  ELSE computed.exc = NoExc /\ computed.value = dt

\* the text 20230131 is a date in ISO format and an epoch: dt_helper_raise
\* gave the date
C27_Witness ==
    /\ computed.fn = "dt_helper_raise"
    /\ computed.input.x = <<"2", "0", "2", "3", "0", "1", "3", "1">>
    /\ computed.input.basic
    /\ computed.exc = NoExc
    /\ computed.value = DateTime(2023, 1, 31, 0, 0, 0)

====
